---- MODULE Spec2Model ----
(***************************************************************************)
(* GR-Explorer backend: the differential-geometry core (metric, inverse,   *)
(* Christoffel, Riemann, Ricci, Einstein, stress-energy) and the request   *)
(* handlers of api/endpoints.py, as state machines.                        *)
(*                                                                         *)
(* SymPy expressions are modelled as Laurent polynomials with rational     *)
(* coefficients over a fixed set of atoms, together with the set of free   *)
(* symbols the unsimplified expression still carries although its value    *)
(* does not depend on them (so that "== S.Zero", "free_symbols" and        *)
(* "simplify" are three different things, as they are in SymPy).           *)
(***************************************************************************)
EXTENDS Integers, Sequences, FiniteSets, TLC

VARIABLES call,     \* direct use of the core: the last core-function call and its outcome
          pc,       \* server: "idle", or "done" once the request has been answered
          req,      \* server: the request being served
          stages,   \* server: the core functions the handler has called, in order
          resp,     \* server: the HTTP response
          objects,  \* Python session: the objects that outlive a call, by name
          history,  \* Python session: its inputs and its last call
          files,    \* scenario store: the files of SCENARIO_DIR, by scenario name
          threads,  \* scenario store: the requests being served, one per worker thread
          table,    \* calculations: the rows of the table and the next id of its sequence
          sessions  \* calculations: the requests being served, each with its own Session

vars == <<call, pc, req, stages, resp, objects, history, files, threads, table, sessions>>
server == <<pc, req, stages, resp>>
python == <<objects, history>>
scenarios == <<files, threads>>
calculations == <<table, sessions>>

n_dim == 4
Idx == 0 .. (n_dim - 1)

(***************************************************************************)
(* Python evaluates the right-hand side of an assignment, and the          *)
(* arguments of a call, once, before the name is used: Let(x, F) is F of   *)
(* the value of x.                                                         *)
(***************************************************************************)
Let(x, F(_)) == CHOOSE y \in {F(v) : v \in {x}} : TRUE
Let2(x1, x2, F(_, _)) == CHOOSE y \in {F(v1, v2) : v1 \in {x1}, v2 \in {x2}} : TRUE

(***************************************************************************)
(* Rational numbers <<numerator, denominator>>, in lowest terms.           *)
(***************************************************************************)
Abs(x) == IF x < 0 THEN -x ELSE x

RECURSIVE GCD(_, _)
GCD(a, b) == IF b = 0 THEN a ELSE GCD(b, a % b)

Rat(n, d) ==
    LET g == GCD(Abs(n), Abs(d))
        s == IF d < 0 THEN -1 ELSE 1
    IN  <<(s * n) \div g, (s * d) \div g>>

RatAdd(a, b) == Rat(a[1] * b[2] + b[1] * a[2], a[2] * b[2])
RatMul(a, b) == Rat(a[1] * b[1], a[2] * b[2])

(***************************************************************************)
(* Atoms of the expressions the requests are built from: the symbols t, r, *)
(* theta, M, rho and p, and the three sub-expressions of the Schwarzschild *)
(* metric that are not Laurent monomials in them.                          *)
(***************************************************************************)
Atoms == {"t", "r", "theta", "M", "rho", "p", "1-2*M/r", "sin(theta)", "cos(theta)"}

AtomFree(s) ==
    CASE s = "1-2*M/r" -> {"M", "r"}
      [] s = "sin(theta)" -> {"theta"}
      [] s = "cos(theta)" -> {"theta"}
      [] OTHER -> {s}

MonOne == [s \in Atoms |-> 0]
MonPow(s, k) == [MonOne EXCEPT ![s] = k]
MonMul(a, b) == [s \in Atoms |-> a[s] + b[s]]

(***************************************************************************)
(* Polynomial values: a function from the monomials of the support to      *)
(* their non-zero coefficients.  Two values are equal iff the expressions  *)
(* are equal as Laurent polynomials in the atoms.                          *)
(***************************************************************************)
PZero == [m \in {} |-> <<0, 1>>]
PTerm(c, m) == IF c[1] = 0 THEN PZero ELSE [x \in {m} |-> c]
PConst(k) == PTerm(<<k, 1>>, MonOne)
Coef(p, m) == IF m \in DOMAIN p THEN p[m] ELSE <<0, 1>>

PAddValues(p, q) ==
    LET c(m) == RatAdd(Coef(p, m), Coef(q, m))
    IN  [m \in {x \in (DOMAIN p) \cup (DOMAIN q) : c(x)[1] # 0} |-> c(m)]
PAdd(p, q) == Let2(p, q, LAMBDA pv, qv : PAddValues(pv, qv))

PScale(c, p) == IF c[1] = 0 THEN PZero ELSE [m \in DOMAIN p |-> RatMul(c, p[m])]
PNeg(p) == PScale(<<-1, 1>>, p)

\* c * m * p for a coefficient c and a monomial m
PShift(p, c, m) ==
    IF c[1] = 0 THEN PZero
    ELSE [x \in {MonMul(m, y) : y \in DOMAIN p} |->
            RatMul(c, p[CHOOSE y \in DOMAIN p : MonMul(m, y) = x])]

RECURSIVE PMulRec(_, _, _)
PMulRec(p, q, todo) ==
    IF todo = {} THEN PZero
    ELSE LET m == CHOOSE x \in todo : TRUE
         IN  PAdd(PShift(q, p[m], m), PMulRec(p, q, todo \ {m}))

PMul(p, q) == PMulRec(p, q, DOMAIN p)

\* the reciprocal of a one-term value (the units of the Laurent ring)
PInv(p) == LET m == CHOOSE x \in DOMAIN p : TRUE
           IN  PTerm(Rat(p[m][2], p[m][1]), [s \in Atoms |-> -m[s]])

Vars(p) == UNION {AtomFree(s) : s \in {a \in Atoms : \E m \in DOMAIN p : m[a] # 0}}

\* the derivative of an atom with respect to the symbol x
DAtom(s, x) ==
    CASE s = x -> PConst(1)
      [] s = "1-2*M/r" /\ x = "r" ->
            PTerm(<<2, 1>>, MonMul(MonPow("M", 1), MonPow("r", -2)))
      [] s = "1-2*M/r" /\ x = "M" -> PTerm(<<-2, 1>>, MonPow("r", -1))
      [] s = "sin(theta)" /\ x = "theta" -> PTerm(<<1, 1>>, MonPow("cos(theta)", 1))
      [] s = "cos(theta)" /\ x = "theta" -> PTerm(<<-1, 1>>, MonPow("sin(theta)", 1))
      [] OTHER -> PZero

RECURSIVE PSum(_, _, _)
PSum(F(_), S, acc) ==
    IF S = {} THEN acc
    ELSE LET x == CHOOSE y \in S : TRUE
         IN  PSum(F, S \ {x}, PAdd(acc, F(x)))

\* product rule over the terms and the atoms of each term
PDiff(p, x) ==
    LET one(ms) == PShift(DAtom(ms[2], x),
                          RatMul(p[ms[1]], <<ms[1][ms[2]], 1>>),
                          [ms[1] EXCEPT ![ms[2]] = @ - 1])
    IN  PSum(one,
             {ms \in (DOMAIN p) \X Atoms : ms[1][ms[2]] # 0 /\ x \in AtomFree(ms[2])},
             PZero)

(***************************************************************************)
(* SymPy expressions: the value v, and the symbols h the expression        *)
(* mentions without its value depending on them ("sin(r)**2 + cos(r)**2 -  *)
(* 1" is the value 0 with h = {"r"}: it is not S.Zero until simplified).   *)
(***************************************************************************)
Ex(v) == [v |-> v, h |-> {}]
Hidden(v, h) == Let(v, LAMBDA pv : [v |-> pv, h |-> h \ Vars(pv)])
EZero == Ex(PZero)
EOne == Ex(PConst(1))
EHalf == Ex(PTerm(<<1, 2>>, MonOne))

free_symbols(e) == Vars(e.v) \cup e.h
is_S_Zero(e) == e.v = PZero /\ e.h = {}
simplify(e) == Let(e, LAMBDA x : Ex(x.v))

EAdd(a, b) ==
    Let2(a, b, LAMBDA x, y : IF is_S_Zero(x) THEN y
                             ELSE IF is_S_Zero(y) THEN x
                             ELSE Hidden(PAddValues(x.v, y.v), x.h \cup y.h))
ENeg(a) == Let(a, LAMBDA x : Hidden(PNeg(x.v), x.h))
ESub(a, b) == EAdd(a, ENeg(b))
EMul(a, b) ==
    Let2(a, b, LAMBDA x, y : IF is_S_Zero(x) \/ is_S_Zero(y) THEN EZero
                             ELSE Hidden(PMul(x.v, y.v), x.h \cup y.h))
EInv(a) == Let(a, LAMBDA x : Hidden(PInv(x.v), x.h))
diff(e, x) ==
    Let(e, LAMBDA ev : IF x \notin free_symbols(ev) THEN EZero
                       ELSE Hidden(PDiff(ev.v, x), ev.h))

Range4(F(_)) == <<F(0), F(1), F(2), F(3)>>

\* sum_val = 0; for k in range(n_dim): sum_val += F(k)
ESum(F(_)) == EAdd(EAdd(EAdd(EAdd(EZero, F(0)), F(1)), F(2)), F(3))

(***************************************************************************)
(* Python values.  Every tensor-like value is a record with its Python     *)
(* type, its shape and its entries e, nested as Python nests them and read *)
(* with the source's indices, which start at 0.  A call either returns a   *)
(* value or raises an exception.                                           *)
(***************************************************************************)
NoneV == [type |-> "NoneType", shape |-> <<>>, e |-> <<>>]
ExprV(x) == [type |-> "Expr", shape |-> <<>>, e |-> x]
Nest2(F(_, _)) == Range4(LAMBDA i : Range4(LAMBDA j : F(i, j)))
Nest3(F(_, _, _)) == Range4(LAMBDA i : Nest2(LAMBDA j, k : F(i, j, k)))
Nest4(F(_, _, _, _)) == Range4(LAMBDA i : Nest3(LAMBDA j, k, l : F(i, j, k, l)))
MatrixV(F(_, _)) == [type |-> "Matrix", shape |-> <<4, 4>>, e |-> Nest2(F)]
\* x[i, j], x[i, j, k], x[i, j, k, l]
At2(x, i, j) == x.e[i + 1][j + 1]
At3(x, i, j, k) == x.e[i + 1][j + 1][k + 1]
At4(x, i, j, k, l) == x.e[i + 1][j + 1][k + 1][l + 1]
TupleV(a, b) == [type |-> "tuple", shape |-> <<2>>, e |-> <<a, b>>]

Return(v) == [ok |-> TRUE, exc |-> "", msg |-> "", val |-> v]
Raise(exc, msg) == [ok |-> FALSE, exc |-> exc, msg |-> msg, val |-> NoneV]

StrV(s) == [type |-> "str", shape |-> <<>>, e |-> s]

\* str(e) of the exception SymPy raises out of diff or simplify: SymPy is handed
\* the expression, and nothing of the loop it is called from
SimplifyRaised == "(SymPy exception)"

\* isinstance(x, Matrix) and x.shape == (4, 4)
IsMatrix44(x) == x.type = "Matrix" /\ x.shape = <<4, 4>>

\* a Python list of lists: a sequence of rows, each a sequence of expressions
Grid(rows, cols, F(_, _)) == [i \in 1 .. rows |-> [j \in 1 .. cols |-> F(i - 1, j - 1)]]

(***************************************************************************)
(* core/metric.py                                                          *)
(***************************************************************************)
create_metric_tensor(components, coords) ==
    IF Len(components) # 4 \/ ~(\A i \in 1 .. Len(components) : Len(components[i]) = 4)
    THEN Raise("ValueError", "Metric components must be a 4x4 list of lists.")
    ELSE IF Len(coords) # 4
    THEN Raise("ValueError", "Coordinates list must contain 4 symbols.")
    ELSE Return(MatrixV(LAMBDA i, j : components[i + 1][j + 1]))

\* the determinant of the 3x3 minor of m on rows r and columns c
Det3(m, r, c) ==
    LET a(i, j) == At2(m, r[i], c[j])
        d2(k, l) == ESub(EMul(a(2, k), a(3, l)), EMul(a(2, l), a(3, k)))
    IN  EAdd(ESub(EMul(a(1, 1), d2(2, 3)), EMul(a(1, 2), d2(1, 3))),
             EMul(a(1, 3), d2(1, 2)))

Without(k) == SelectSeq(<<0, 1, 2, 3>>, LAMBDA x : x # k)
Cofactor(m, i, j) ==
    IF (i + j) % 2 = 0 THEN Det3(m, Without(i), Without(j))
    ELSE ENeg(Det3(m, Without(i), Without(j)))

\* Matrix.det(): expansion along the first row
det(m) == LET tm(j) == EMul(At2(m, 0, j), Cofactor(m, 0, j)) IN ESum(tm)

\* Matrix.inv(): adjugate over determinant
inv(m) == Let(EInv(det(m)), LAMBDA d : MatrixV(LAMBDA i, j : EMul(Cofactor(m, j, i), d)))

calculate_inverse_metric(metric) ==
    IF ~IsMatrix44(metric)
    THEN Raise("ValueError", "Input must be a 4x4 SymPy Matrix.")
    ELSE Let(det(metric), LAMBDA determinant :
             IF is_S_Zero(simplify(determinant))
             THEN Raise("ValueError",
                        "Metric is singular (determinant is zero), cannot compute inverse.")
             ELSE Return(inv(metric)))

(***************************************************************************)
(* core/christoffel.py                                                     *)
(***************************************************************************)
ArrayOf(type, F(_, _, _)) == [type |-> type, shape |-> <<4, 4, 4>>, e |-> Nest3(F)]

\* a seeded fault: the pre-filter looks for coords[mu], not coords[rho]
christoffel_dg_filter_on_mu(metric, coords, rho, mu, nu) ==
    LET coord_symbol == coords[rho + 1]
        metric_comp == At2(metric, mu, nu)
    IN  IF is_S_Zero(metric_comp) THEN EZero
        ELSE IF coords[mu + 1] \in free_symbols(metric_comp)
        THEN simplify(diff(metric_comp, coord_symbol))
        ELSE EZero

\* step 1: dg[rho, mu, nu] = d(metric[mu, nu]) / d(coords[rho])
christoffel_dg(metric, coords, rho, mu, nu) ==
    LET coord_symbol == coords[rho + 1]
        metric_comp == At2(metric, mu, nu)
    IN  IF is_S_Zero(metric_comp) THEN EZero
        ELSE IF coord_symbol \in free_symbols(metric_comp)
        THEN Let(diff(metric_comp, coord_symbol), LAMBDA derivative :
                 IF ~is_S_Zero(derivative) THEN simplify(derivative) ELSE EZero)
        ELSE EZero

\* a seeded fault: the bracket without its second derivative
christoffel_component_two_terms(dg, inverse_metric, lam, mu, nu) ==
    LET term(rho) == ESub(At3(dg, mu, rho, nu), At3(dg, rho, mu, nu))
        add(rho) == EMul(At2(inverse_metric, lam, rho), term(rho))
    IN  simplify(EMul(EHalf, ESum(add)))

\* step 2: sum_val of one component, from the table dg of step 1
christoffel_sum_val(dg, inverse_metric, lam, mu, nu) ==
    LET term(rho) == ESub(EAdd(At3(dg, mu, rho, nu), At3(dg, nu, rho, mu)),
                          At3(dg, rho, mu, nu))
        add(rho) == Let(term(rho), LAMBDA tm :
                        IF ~is_S_Zero(tm) /\ ~is_S_Zero(At2(inverse_metric, lam, rho))
                        THEN EMul(At2(inverse_metric, lam, rho), tm)
                        ELSE EZero)
    IN  ESum(add)

christoffel_component(dg, inverse_metric, lam, mu, nu) ==
    Let(christoffel_sum_val(dg, inverse_metric, lam, mu, nu), LAMBDA sum_val :
            IF ~is_S_Zero(sum_val) THEN simplify(EMul(EHalf, sum_val)) ELSE EZero)

\* whether the loops reach the call of SymPy named by point: diff(metric_comp,
\* coord_symbol) and simplify(derivative) at dg[rho, mu, nu], and
\* simplify(Rational(1, 2) * sum_val) at christoffel[lam, mu, nu]
christoffel_calls(point, metric, inverse_metric, coords, dg) ==
    LET i == point.at
        metric_comp == At2(metric, i[2], i[3])
        differentiated == /\ ~is_S_Zero(metric_comp)
                          /\ coords[i[1] + 1] \in free_symbols(metric_comp)
    IN  CASE point.call = "diff(metric_comp, coord_symbol)" -> differentiated
          [] point.call = "simplify(derivative)" ->
                 differentiated /\ ~is_S_Zero(diff(metric_comp, coords[i[1] + 1]))
          [] point.call = "simplify(sympy.Rational(1, 2) * sum_val)" ->
                 ~is_S_Zero(christoffel_sum_val(dg, inverse_metric, i[1], i[2], i[3]))

\* sympy_raises: the calls of SymPy that raise when the loops reach them.  What
\* is raised inside the try block is returned as the second item of the pair.
calculate_christoffel_symbols_with(sympy_raises, metric, inverse_metric, coords) ==
    IF ~IsMatrix44(metric)
    THEN Raise("ValueError", "Metric must be a 4x4 SymPy Matrix.")
    ELSE IF ~IsMatrix44(inverse_metric)
    THEN Raise("ValueError", "Inverse metric must be a 4x4 SymPy Matrix.")
    ELSE IF Len(coords) # 4
    THEN Raise("ValueError", "Must provide 4 coordinate symbols.")
    ELSE Let(ArrayOf("MutableArray", LAMBDA rho, mu, nu :
                         christoffel_dg(metric, coords, rho, mu, nu)),
             LAMBDA dg :
                 IF \E point \in sympy_raises :
                        christoffel_calls(point, metric, inverse_metric, coords, dg)
                 THEN Return(TupleV(NoneV,
                                    StrV([text |-> "Error calculating Christoffel symbols: {e}",
                                          e |-> SimplifyRaised])))
                 ELSE Let(ArrayOf("list", LAMBDA lam, mu, nu :
                                     christoffel_component(dg, inverse_metric, lam, mu, nu)),
                          LAMBDA christoffel_list : Return(TupleV(christoffel_list, NoneV))))

\* with the expressions of the model, on all of which SymPy returns
calculate_christoffel_symbols(metric, inverse_metric, coords) ==
    calculate_christoffel_symbols_with({}, metric, inverse_metric, coords)

(***************************************************************************)
(* core/riemann.py                                                         *)
(***************************************************************************)
\* sympy.Array is ImmutableDenseNDimArray: Array.zeros(n, n, n, n)
Array_zeros4 ==
    [type |-> "Array", shape |-> <<4, 4, 4, 4>>, e |-> Nest4(LAMBDA i, j, k, l : EZero)]

\* arr[index] = value: ImmutableDenseNDimArray.__setitem__ raises TypeError
ndarray_setitem(arr, index, value) ==
    IF arr.type = "Array"
    THEN Raise("TypeError", "immutable N-dim array")
    ELSE Return([arr EXCEPT
                   !.e[index[1] + 1][index[2] + 1][index[3] + 1][index[4] + 1] = value])

\* isinstance(christoffel, (Array, ImmutableDenseNDimArray)), rank 3, shape (4, 4, 4)
IsArray444(x) == x.type = "Array" /\ x.shape = <<4, 4, 4>>

\* dGamma[mu, rho, nu, sigma] = d_mu(Gamma^rho_nu_sigma)
riemann_dGamma(christoffel, coords, mu, rho, nu, sigma) ==
    IF ~is_S_Zero(At3(christoffel, rho, nu, sigma))
    THEN simplify(diff(At3(christoffel, rho, nu, sigma), coords[mu + 1]))
    ELSE EZero

riemann_component(christoffel, coords, rho, sigma, mu, nu) ==
    LET term1 == riemann_dGamma(christoffel, coords, mu, rho, nu, sigma)
        term2 == riemann_dGamma(christoffel, coords, nu, rho, mu, sigma)
        t3(lam) == EMul(At3(christoffel, rho, mu, lam), At3(christoffel, lam, nu, sigma))
        t4(lam) == EMul(At3(christoffel, rho, nu, lam), At3(christoffel, lam, mu, sigma))
        term3 == ESum(t3)
        term4 == ESum(t4)
    IN  ESub(EAdd(ESub(term1, term2), term3), term4)

calculate_riemann_tensor(christoffel, coords) ==
    IF ~IsArray444(christoffel)
    THEN Raise("ValueError",
               "Christoffel symbols must be a 3-rank SymPy Array with shape (4, 4, 4).")
    ELSE IF Len(coords) # 4
    THEN Raise("ValueError", "Coordinates must be a list of 4 SymPy symbols.")
    ELSE LET riemann == Array_zeros4
             dGamma == Array_zeros4
             \* the first pass of the first loop stores into dGamma
             first == ndarray_setitem(dGamma, <<0, 0, 0, 0>>,
                                      riemann_dGamma(christoffel, coords, 0, 0, 0, 0))
         IN  IF ~first.ok THEN first
             ELSE Return([riemann EXCEPT !.e =
                     Nest4(LAMBDA i, j, k, l :
                              riemann_component(christoffel, coords, i, j, k, l))])

(***************************************************************************)
(* core/ricci.py                                                           *)
(***************************************************************************)
calculate_ricci_tensor(riemann_tensor) ==
    IF ~(riemann_tensor.type = "Array" /\ riemann_tensor.shape = <<4, 4, 4, 4>>)
    THEN Raise("ValueError",
               "Riemann tensor must be a 4-rank SymPy Array with shape (4, 4, 4, 4).")
    ELSE Return(MatrixV(LAMBDA mu, nu :
                   LET c(rho) == At4(riemann_tensor, rho, mu, rho, nu)
                   IN  ESum(c)))

calculate_ricci_scalar(ricci_tensor, inverse_metric) ==
    IF ~IsMatrix44(ricci_tensor)
    THEN Raise("ValueError", "Ricci tensor must be a 4x4 SymPy Matrix.")
    ELSE IF ~IsMatrix44(inverse_metric)
    THEN Raise("ValueError", "Inverse metric must be a 4x4 SymPy Matrix.")
    ELSE LET row(mu) == LET c(nu) == EMul(At2(inverse_metric, mu, nu),
                                              At2(ricci_tensor, mu, nu))
                        IN  ESum(c)
         IN  Return(ExprV(ESum(row)))

(***************************************************************************)
(* core/einstein_tensor.py                                                 *)
(***************************************************************************)
\* a seeded fault: the factor 1/2 left out
calculate_einstein_tensor_without_half(ricci_tensor, ricci_scalar, metric) ==
    Return(MatrixV(LAMBDA i, j :
              simplify(ESub(At2(ricci_tensor, i, j),
                            EMul(At2(metric, i, j), ricci_scalar.e)))))

\* simplify_raises: the components (i, j) at which simplify(einstein_tensor[i, j])
\* raises.  The loop stops at the first of them, and the except clause of the
\* try block wraps what was raised.
calculate_einstein_tensor_with(simplify_raises, ricci_tensor, ricci_scalar, metric) ==
    IF ~IsMatrix44(ricci_tensor)
    THEN Raise("ValueError", "Ricci tensor must be a 4x4 SymPy Matrix.")
    ELSE IF ricci_scalar.type # "Expr"
    THEN Raise("ValueError", "Ricci scalar must be a SymPy Expression or Number.")
    ELSE IF ~IsMatrix44(metric)
    THEN Raise("ValueError", "Metric must be a 4x4 SymPy Matrix.")
    ELSE IF \E i \in Idx, j \in Idx : <<i, j>> \in simplify_raises
    THEN Raise("ValueError", [text |-> "Error calculating Einstein tensor: {str(e)}",
                              e |-> SimplifyRaised])
    ELSE Return(MatrixV(LAMBDA i, j :
                   simplify(ESub(At2(ricci_tensor, i, j),
                                 EMul(EMul(EHalf, At2(metric, i, j)), ricci_scalar.e)))))

\* with the expressions of the model, on all of which simplify returns
calculate_einstein_tensor(ricci_tensor, ricci_scalar, metric) ==
    calculate_einstein_tensor_with({}, ricci_tensor, ricci_scalar, metric)

(***************************************************************************)
(* core/stress_energy.py                                                   *)
(***************************************************************************)
\* The def statements of the module annotate their parameters with Number,
\* a name the module neither imports nor defines.  An interpreter that
\* evaluates annotations when it executes a def raises NameError at the first
\* one, and the import of the module fails; one that defers them loads it.
Annotations == {"eager", "deferred"}
import_stress_energy(annotations) ==
    IF annotations = "eager"
    THEN Raise("NameError", "name 'Number' is not defined")
    ELSE Return(NoneV)

Sym(s) == Ex(PTerm(<<1, 1>>, MonPow(s, 1)))
rho == Sym("rho")
p == Sym("p")
default_four_velocity == <<Ex(PConst(-1)), EZero, EZero, EZero>>

create_stress_energy_tensor_from_components(components) ==
    IF Len(components) # 4 \/ ~(\A i \in 1 .. Len(components) : Len(components[i]) = 4)
    THEN Raise("ValueError", "Stress-Energy tensor components must be a 4x4 list of lists.")
    ELSE Return(MatrixV(LAMBDA i, j : components[i + 1][j + 1]))

create_vacuum_tensor == Return(MatrixV(LAMBDA i, j : EZero))

create_dust_tensor(density, four_velocity) ==
    IF Len(four_velocity) # 4
    THEN Raise("ValueError", "Four-velocity must be a list of 4 components.")
    ELSE Return(MatrixV(LAMBDA mu, nu :
                   EMul(EMul(density, four_velocity[mu + 1]), four_velocity[nu + 1])))

create_perfect_fluid_tensor(metric, density, pressure, four_velocity) ==
    IF ~IsMatrix44(metric)
    THEN Raise("ValueError", "Metric must be a 4x4 SymPy Matrix.")
    ELSE IF Len(four_velocity) # 4
    THEN Raise("ValueError", "Four-velocity must be a list of 4 components.")
    ELSE Return(MatrixV(LAMBDA mu, nu :
                   LET term1 == EMul(EMul(EAdd(density, pressure), four_velocity[mu + 1]),
                                     four_velocity[nu + 1])
                       term2 == EMul(pressure, At2(metric, mu, nu))
                   IN  EAdd(term1, term2)))

(***************************************************************************)
(* NumPy floats: rationals, and one value for what is not a finite number  *)
(* (inf, -inf, nan).  Rounding is left out.  Arithmetic on NumPy floats    *)
(* never raises: a division by zero is a RuntimeWarning and a result that  *)
(* is not finite.                                                          *)
(***************************************************************************)
NonFinite == <<0, 0>>
\* the float of an integer, and of each integer of a list
Float(k) == <<k, 1>>
Floats(s) == [i \in 1 .. Len(s) |-> Float(s[i])]
isfinite(x) == x[2] # 0
FloatAdd(a, b) == IF isfinite(a) /\ isfinite(b) THEN RatAdd(a, b) ELSE NonFinite
FloatMul(a, b) == IF isfinite(a) /\ isfinite(b) THEN RatMul(a, b) ELSE NonFinite
FloatSub(a, b) == FloatAdd(a, FloatMul(<<-1, 1>>, b))

RECURSIVE FloatPow(_, _)
FloatPow(x, k) ==
    IF k = 0 THEN <<1, 1>>
    ELSE IF ~isfinite(x) THEN NonFinite
    ELSE IF k > 0 THEN FloatMul(x, FloatPow(x, k - 1))
    ELSE IF x[1] = 0 THEN NonFinite
    ELSE FloatPow(Rat(x[2], x[1]), -k)

RECURSIVE FloatSum(_, _)
FloatSum(F(_), S) ==
    IF S = {} THEN <<0, 1>>
    ELSE LET x == CHOOSE y \in S : TRUE
         IN  FloatAdd(F(x), FloatSum(F, S \ {x}))

RECURSIVE FloatProd(_, _)
FloatProd(F(_), S) ==
    IF S = {} THEN <<1, 1>>
    ELSE LET x == CHOOSE y \in S : TRUE
         IN  FloatMul(F(x), FloatProd(F, S \ {x}))

\* np.linspace(start, stop, num)
linspace(start, stop, num) ==
    IF num < 0 THEN Raise("ValueError", "Number of samples must be non-negative.")
    ELSE Return([i \in 1 .. num |->
                    IF num = 1 THEN start
                    ELSE FloatAdd(start, FloatMul(Rat(i - 1, num - 1), FloatSub(stop, start)))])

(***************************************************************************)
(* sympy.lambdify(args, expr, modules): a Python function of the values of *)
(* args.  A symbol of expr that is not among args is a global name of the  *)
(* generated function, looked up, and not found, when the function runs.   *)
(* The trigonometric atoms are evaluated at theta = 0 only.                *)
(***************************************************************************)
lambdify(args, expr) == [args |-> args, expr |-> expr]

lambdified_call(f, values) ==
    LET value_of(s) == values[CHOOSE i \in 1 .. Len(f.args) : f.args[i] = s]
        atom(s) == CASE s = "1-2*M/r" ->
                            FloatSub(<<1, 1>>, FloatMul(FloatMul(<<2, 1>>, value_of("M")),
                                                        FloatPow(value_of("r"), -1)))
                     [] s = "sin(theta)" /\ value_of("theta") = <<0, 1>> -> <<0, 1>>
                     [] s = "cos(theta)" /\ value_of("theta") = <<0, 1>> -> <<1, 1>>
                     [] s \notin {"1-2*M/r", "sin(theta)", "cos(theta)"} -> value_of(s)
        term(m) == FloatMul(f.expr.v[m],
                            FloatProd(LAMBDA s : FloatPow(atom(s), m[s]),
                                      {s \in Atoms : m[s] # 0}))
    IN  IF \E s \in free_symbols(f.expr) : \A i \in 1 .. Len(f.args) : f.args[i] # s
        THEN Raise("NameError", "name is not defined")
        ELSE Return(FloatSum(term, DOMAIN f.expr.v))

(***************************************************************************)
(* core/geodesic.py.  A message built by an f-string is the template with  *)
(* the values of its fields.                                               *)
(***************************************************************************)
\* ode_func that returns dydtau as np.zeros_like(y) made it
ode_func_returning_zeros(fun, tau, y) == Return([i \in 1 .. Len(y) |-> <<0, 1>>])

\* ode_func that sums each pair of lower indices once (mu <= nu), as a
\* contraction that relies on the symmetry of the symbols would
ode_func_summing_half_the_pairs(fun, tau, y) ==
    LET n == Len(fun.coords)
        current_coords == SubSeq(y, 1, n)
        current_vel == SubSeq(y, n + 1, 2 * n)
        gamma_values(lam, mu, nu) ==
            lambdified_call(fun.christoffel_lambdified[lam + 1][mu + 1][nu + 1], current_coords)
        acceleration(lam) ==
            FloatSub(<<0, 1>>,
                     FloatSum(LAMBDA i : FloatMul(FloatMul(gamma_values(lam, i[1], i[2]).val,
                                                           current_vel[i[1] + 1]),
                                                  current_vel[i[2] + 1]),
                              {i \in Idx \X Idx : i[1] <= i[2]}))
    IN  IF \E lam \in Idx, mu \in Idx, nu \in Idx : ~gamma_values(lam, mu, nu).ok
        THEN Raise("RuntimeError", "Error evaluating Christoffel symbol")
        ELSE Return([i \in 1 .. 2 * n |->
                        IF i <= n THEN current_vel[i] ELSE acceleration(i - n - 1)])

\* ode_func(tau, y) of the closure fun = (christoffel_lambdified, coords)
ode_func(fun, tau, y) ==
    LET n == Len(fun.coords)
        current_coords == SubSeq(y, 1, n)
        current_vel == SubSeq(y, n + 1, 2 * n)
        gamma_values(lam, mu, nu) ==
            lambdified_call(fun.christoffel_lambdified[lam + 1][mu + 1][nu + 1], current_coords)
        acceleration(lam) ==
            FloatSub(<<0, 1>>,
                     FloatSum(LAMBDA i : FloatMul(FloatMul(gamma_values(lam, i[1], i[2]).val,
                                                           current_vel[i[1] + 1]),
                                                  current_vel[i[2] + 1]),
                              Idx \X Idx))
    IN  IF \E lam \in Idx, mu \in Idx, nu \in Idx : ~gamma_values(lam, mu, nu).ok
        THEN Raise("RuntimeError",
                   [text |-> "Error evaluating Christoffel symbol at {coords}={current_coords}",
                    coords |-> fun.coords, current_coords |-> current_coords])
        ELSE Return([i \in 1 .. 2 * n |->
                        IF i <= n THEN current_vel[i] ELSE acceleration(i - n - 1)])

geodesic_ode_system(christoffel_lambdified, coords) ==
    IF Len(coords) # 4
    THEN Raise("ValueError", "Currently only supports 4D spacetime.")
    ELSE Return([christoffel_lambdified |-> christoffel_lambdified, coords |-> coords])

(***************************************************************************)
(* scipy.integrate.solve_ivp(fun, t_span, y0, t_eval=t_eval): integrates   *)
(* from t_span[0] to t_span[1], one explicit step from each time of t_eval *)
(* to the next, evaluates fun at the state it starts from and at the state *)
(* each step arrives at, and returns the states at the times of t_eval.    *)
(* What fun raises leaves solve_ivp; a right-hand side that is not finite  *)
(* is a step the integrator cannot accept: it gives up with status -1, or  *)
(* shrinks the step for ever.  A solver may also give up on a finite       *)
(* right-hand side (solver = "gives_up").                                  *)
(***************************************************************************)
TOO_SMALL_STEP == "Required step size is less than spacing between numbers."
NoReturn == [ok |-> FALSE, exc |-> "(no return)", msg |-> "", val |-> NoneV]
OdeResult(success, message, t, y) == [success |-> success, message |-> message, t |-> t, y |-> y]

RECURSIVE solve_ivp_steps(_, _, _, _, _, _)
solve_ivp_steps(fun, times, k, y, rows, solver) ==
    Let(ode_func(fun, times[k], y), LAMBDA dydtau :
        IF ~dydtau.ok THEN dydtau
        ELSE IF \E i \in 1 .. Len(y) : ~isfinite(dydtau.val[i])
        THEN IF solver = "hangs" THEN NoReturn
             ELSE Return(OdeResult(FALSE, TOO_SMALL_STEP, SubSeq(times, 1, k - 1), rows))
        ELSE IF solver = "gives_up"
        THEN Return(OdeResult(FALSE, TOO_SMALL_STEP, SubSeq(times, 1, k - 1), rows))
        ELSE IF k = Len(times)
        THEN Return(OdeResult(TRUE, "The solver successfully reached the end of the integration interval.",
                              times, Append(rows, y)))
        ELSE solve_ivp_steps(
                 fun, times, k + 1,
                 [i \in 1 .. Len(y) |->
                     FloatAdd(y[i], FloatMul(FloatSub(times[k + 1], times[k]), dydtau.val[i]))],
                 Append(rows, y), solver))

solve_ivp(fun, t_span, y0, t_eval, solver) ==
    LET times == IF t_eval = <<>> \/ t_eval[Len(t_eval)] # t_span[2]
                 THEN Append(t_eval, t_span[2]) ELSE t_eval
    IN  Let(solve_ivp_steps(fun, times, 1, y0, <<>>, solver), LAMBDA sol :
            IF sol.ok /\ sol.val.success
            THEN Return(OdeResult(TRUE, sol.val.message, t_eval,
                                  SubSeq(sol.val.y, 1, Len(t_eval))))
            ELSE sol)

\* a check of sol.success that always passes
geodesic_check_success_always_passing(sol) == Return(sol)

\* if not sol.success: raise RuntimeError(f"solve_ivp failed: {sol.message}")
geodesic_check_success(sol) ==
    IF ~sol.success
    THEN Raise("RuntimeError",
               [text |-> "solve_ivp failed: {sol.message}", message |-> sol.message])
    ELSE Return(sol)

\* solver: how the integrator behaves on this problem each time it is invoked,
\* first invocation first
calculate_geodesic(christoffel, coords, initial_pos, initial_vel, t_span, t_eval, solver) ==
    LET n == Len(coords)
    IN  IF Len(initial_pos) # n \/ Len(initial_vel) # n
        THEN Raise("ValueError",
                   [text |-> "Initial position and velocity must have {n} components.", n |-> n])
        ELSE IF christoffel.type # "Array" \/ Len(christoffel.shape) # 3
                    \/ christoffel.shape # <<n, n, n>>
        THEN Raise("ValueError",
                   "Christoffel symbols must be a 3-rank SymPy Array with shape (4, 4, 4).")
        ELSE Let(geodesic_ode_system(
                     Nest3(LAMBDA lam, mu, nu : lambdify(coords, At3(christoffel, lam, mu, nu))),
                     coords),
                 LAMBDA ode :
                     IF ~ode.ok THEN ode
                     ELSE Let(solve_ivp(ode.val, t_span, initial_pos \o initial_vel, t_eval,
                                        Head(solver)),
                              LAMBDA invoked :
                     IF invoked.exc = NoReturn.exc THEN NoReturn
                     ELSE Let(IF invoked.ok THEN geodesic_check_success(invoked.val)
                              ELSE invoked,
                              LAMBDA sol :
                     IF ~sol.ok
                     THEN Raise("RuntimeError",
                                [text |-> "Error during geodesic calculation: {e}", e |-> sol.msg])
                     ELSE Return([type |-> "tuple", shape |-> <<2>>,
                                  e |-> <<sol.val.t, sol.val.y>>]))))

(***************************************************************************)
(* core/embedding.py.  The square root, the antiderivative and the limit   *)
(* are computed for a radical that is a rational constant with a rational  *)
(* root: sqrt(q) is a real or an imaginary number c = <<re, im>>, its      *)
(* antiderivative is c*r, whose limit at infinity is 0 for c = 0 and       *)
(* infinite otherwise.  For the other radicals, cas is what SymPy answers: *)
(* integrate returns an unevaluated Integral, raises, or returns an        *)
(* antiderivative whose limit at infinity is finite, is infinite, or       *)
(* cannot be computed (limit raises).                                      *)
(***************************************************************************)
Cas == {"Integral", "integrate_raises", "limit_finite", "limit_infinite", "limit_raises"}
IsSquare(k) == \E x \in 0 .. k : x * x = k
Root(k) == CHOOSE x \in 0 .. k : x * x = k
HasRationalRoot(e) ==
    /\ Vars(e.v) = {}
    /\ IsSquare(Abs(Coef(e.v, MonOne)[1]))
    /\ IsSquare(Coef(e.v, MonOne)[2])

\* simplify(sqrt(e))
sympy_sqrt(e) ==
    IF HasRationalRoot(e)
    THEN LET q == Coef(e.v, MonOne)
             root == Rat(Root(Abs(q[1])), Root(q[2]))
         IN  [kind |-> "number", c |-> IF q[1] >= 0 THEN <<root, Float(0)>> ELSE <<Float(0), root>>]
    ELSE [kind |-> "sqrt", radical |-> simplify(e)]

\* integrate(integrand, r_symbol)
sympy_integrate(integrand, cas) ==
    IF integrand.kind = "number"
    THEN Return([kind |-> "linear", c |-> integrand.c, constant |-> "0"])
    ELSE IF cas = "integrate_raises"
    THEN Raise("NotImplementedError", "integrate")
    ELSE IF cas = "Integral"
    THEN Return([kind |-> "Integral", radical |-> integrand.radical, constant |-> "0"])
    ELSE Return([kind |-> "antiderivative", radical |-> integrand.radical, constant |-> "0"])

\* sympy.limit(z_integrated, r_symbol, oo).is_finite
sympy_limit_is_finite(z_integrated, cas) ==
    IF z_integrated.kind = "linear"
    THEN Return(z_integrated.c = <<Float(0), Float(0)>>)
    ELSE IF cas = "limit_raises"
    THEN Raise("NotImplementedError", "limit")
    ELSE Return(cas = "limit_finite")

\* z.free_symbols of an embedding function
z_free_symbols(z) ==
    IF z.kind = "linear"
    THEN IF z.c = <<Float(0), Float(0)>> THEN {} ELSE {"r"}
    ELSE free_symbols(z.radical) \cup {"r"}

\* z_integrated + integration_constant, the constant being minus the limit at
\* infinity if that is finite, and 0 if it is not or if limit raised
calculate_flamms_paraboloid_constant(z_integrated, limit_is_finite) ==
    IF limit_is_finite.ok /\ limit_is_finite.val
    THEN [z_integrated EXCEPT !.constant =
              IF z_integrated.kind = "linear" THEN "0" ELSE "-limit_at_inf"]
    ELSE [z_integrated EXCEPT !.constant = "0"]

\* the check of g_rr with r left among the coordinates it must not depend on
other_coord_deps_with_r(g_rr, metric, coords) ==
    free_symbols(g_rr) \cap {coords[i] : i \in 1 .. Len(coords)}

\* the coordinates other than r that g_rr depends on, as lines 63-68 find them
other_coord_deps(g_rr, metric, coords) ==
    LET variables_in_grr == free_symbols(g_rr)
        set_coords == {coords[i] : i \in 1 .. Len(coords)}
        metric_free_symbols == UNION {free_symbols(At2(metric, i, j)) : i \in Idx, j \in Idx}
    IN  IF ~(variables_in_grr \subseteq (({"r"} \cup metric_free_symbols) \ set_coords))
        THEN (variables_in_grr \cap set_coords) \ {"r"}
        ELSE {}

calculate_flamms_paraboloid(metric, coords, cas) ==
    IF ~IsMatrix44(metric)
    THEN Return(TupleV(NoneV, StrV("Input must be a 4x4 SymPy Matrix.")))
    ELSE IF Len(coords) # 4
    THEN Return(TupleV(NoneV, StrV("Must provide 4 coordinate symbols.")))
    ELSE IF ~(\E i \in 1 .. Len(coords) : coords[i] = "r")
               \/ ~(\E i \in 1 .. Len(coords) : coords[i] = "theta")
    THEN Return(TupleV(NoneV, StrV("Coordinates must include 'r' and 'theta'.")))
    ELSE LET r_idx == (CHOOSE i \in 1 .. Len(coords) :
                           coords[i] = "r" /\ \A k \in 1 .. (i - 1) : coords[k] # "r") - 1
             g_rr == At2(metric, r_idx, r_idx)
             deps == other_coord_deps(g_rr, metric, coords)
         IN  IF deps # {}
             THEN Return(TupleV(NoneV,
                     StrV([text |-> "Metric component g_rr depends on coordinates other than r: {other_coord_deps}. Cannot compute Flamm's paraboloid simply.",
                           other_coord_deps |-> deps])))
             ELSE Let(sympy_sqrt(ESub(g_rr, EOne)), LAMBDA integrand_simplified :
                  Let(sympy_integrate(integrand_simplified, cas), LAMBDA z_integrated :
                      IF ~z_integrated.ok
                      THEN Return(TupleV(NoneV,
                              StrV([text |-> "Could not calculate embedding function z(r): {e}",
                                    e |-> z_integrated.msg])))
                      ELSE IF z_integrated.val.kind = "Integral"
                      THEN Return(TupleV(NoneV,
                              StrV([text |-> "Symbolic integration failed for sqrt(g_rr - 1) = {integrand_simplified}. Cannot determine z(r).",
                                    integrand_simplified |-> integrand_simplified])))
                      ELSE Return(TupleV(
                              ExprV(calculate_flamms_paraboloid_constant(
                                        z_integrated.val,
                                        sympy_limit_is_finite(z_integrated.val, cas))),
                              NoneV))))

(***************************************************************************)
(* api/endpoints.py: helpers.  A component arrives as text; sympify turns  *)
(* the texts the requests use into expressions and fails on the rest.      *)
(***************************************************************************)
RPowText == <<"1", "r", "r**2", "r**3", "r**4">>
TPowText == <<"1", "t", "t**2", "t**3", "t**4">>
PowOf(s, k) == Ex(PTerm(<<1, 1>>, MonPow(s, k)))

sympify_values ==
    [s \in {RPowText[k] : k \in 1 .. Len(RPowText)} |->
        PowOf("r", (CHOOSE k \in 1 .. Len(RPowText) : RPowText[k] = s) - 1)]
    @@ [s \in {TPowText[k] : k \in 1 .. Len(TPowText)} |->
        PowOf("t", (CHOOSE k \in 1 .. Len(TPowText) : TPowText[k] = s) - 1)]
    @@ ("0" :> EZero)
    @@ ("-1" :> Ex(PConst(-1)))
    @@ ("2" :> Ex(PConst(2)))
    @@ ("M" :> Sym("M"))
    @@ ("rho" :> rho)
    @@ ("p" :> p)
    @@ ("-(1-2*M/r)" :> ENeg(Sym("1-2*M/r")))
    @@ ("1/(1-2*M/r)" :> PowOf("1-2*M/r", -1))
    @@ ("r**2*sin(theta)**2" :> Ex(PTerm(<<1, 1>>, MonMul(MonPow("r", 2), MonPow("sin(theta)", 2)))))
    \* not reduced by sympify: zero in value, yet not S.Zero, and r is a free symbol
    @@ ("sin(r)**2+cos(r)**2-1" :> [v |-> PZero, h |-> {"r"}])
    \* not reduced by sympify: r in value, and t is a free symbol as well
    @@ ("r*(t+1)-r*t" :> [v |-> PTerm(<<1, 1>>, MonPow("r", 1)), h |-> {"t"}])

sympify(text) ==
    IF text \in DOMAIN sympify_values
    THEN Return(sympify_values[text])
    ELSE Raise("SympifyError", "could not parse")

Symbol(name) == name
parse_coords(coord_names) == [i \in 1 .. Len(coord_names) |-> Symbol(coord_names[i])]

parse_components(components) ==
    IF \A i \in 1 .. Len(components) : \A j \in 1 .. Len(components[i]) :
           sympify(components[i][j]).ok
    THEN Return([i \in 1 .. Len(components) |->
                   [j \in 1 .. Len(components[i]) |-> sympify(components[i][j]).val]])
    ELSE Raise("HTTPException400", "Invalid symbolic expression found")

\* comp.subs(param_symbols): each parameter symbol replaced by its float.  Defined
\* for the expressions in which the parameters occur as factors of the terms.
subs(e, param_symbols) ==
    LET names == DOMAIN param_symbols
        factor(m) == FloatProd(LAMBDA s : FloatPow(param_symbols[s], m[s]),
                               {s \in names : m[s] # 0})
        rest(m) == [s \in Atoms |-> IF s \in names THEN 0 ELSE m[s]]
    IN  CASE \A m \in DOMAIN e.v : \A s \in Atoms \ names :
                 m[s] # 0 => AtomFree(s) \cap names = {} ->
             Hidden(PSum(LAMBDA m : PTerm(RatMul(e.v[m], factor(m)), rest(m)),
                         DOMAIN e.v, PZero),
                    e.h \ names)

\* [[comp.subs(param_symbols) for comp in row] for row in metric_components_sympy]
subs_components(components, param_symbols) ==
    [i \in 1 .. Len(components) |->
        [j \in 1 .. Len(components[i]) |-> subs(components[i][j], param_symbols)]]

\* the names endpoints.py binds from sympy (line 4)
endpoints_sympy_names == {"symbols", "Matrix", "sympify", "latex", "Symbol", "Array", "lambdify"}

\* simplify(x) as written in endpoints.py: the name is looked up when the call runs
endpoints_simplify(x) ==
    IF "simplify" \in endpoints_sympy_names
    THEN Return(simplify(x))
    ELSE Raise("NameError", "name 'simplify' is not defined")

latex(x) == [latex |-> x.v]

format_tensor_output(tensor) ==
    IF tensor.type \notin {"Matrix", "Array", "MutableArray"}
    THEN Raise("AttributeError", "object has no attribute 'shape'")
    ELSE IF Len(tensor.shape) \notin {2, 3, 4}
    THEN Raise("NotImplementedError", "Tensor formatting not implemented for this rank")
    ELSE LET num_indices == Len(tensor.shape)
             at(i) == IF num_indices = 2 THEN At2(tensor, i[1], i[2])
                      ELSE IF num_indices = 3 THEN At3(tensor, i[1], i[2], i[3])
                      ELSE At4(tensor, i[1], i[2], i[3], i[4])
             all == IF num_indices = 2 THEN Idx \X Idx
                    ELSE IF num_indices = 3 THEN Idx \X Idx \X Idx
                    ELSE Idx \X Idx \X Idx \X Idx
             first == endpoints_simplify(at([k \in 1 .. num_indices |-> 0]))
             keys == IF num_indices = 2 THEN all
                     ELSE {i \in all : ~is_S_Zero(simplify(at(i)))}
         IN  IF ~first.ok THEN first
             ELSE Return([type |-> "SymbolicTensorOutput", shape |-> <<>>,
                          e |-> [i \in keys |-> latex(simplify(at(i)))]])

(***************************************************************************)
(* Exceptions: the classes a handler's except clauses are matched against. *)
(***************************************************************************)
Bases(exc) ==
    CASE exc = "SympifyError" -> {"SympifyError", "ValueError", "Exception"}
      [] exc = "NotImplementedError" -> {"NotImplementedError", "RuntimeError", "Exception"}
      [] exc = "HTTPException400" -> {"HTTPException", "Exception"}
      [] exc = "HTTPException500" -> {"HTTPException", "Exception"}
      [] OTHER -> {exc, "Exception"}

Response(status, detail, body) == [status |-> status, detail |-> detail, body |-> body]
NoBody == [kind |-> "none"]
NoResp == Response(0, "", NoBody)

\* try: ... except clauses[1][1]: raise HTTPException(clauses[1][2]) except ...
RECURSIVE Except(_, _)
Except(r, clauses) ==
    IF r.ok THEN Response(200, "", r.val)
    ELSE IF clauses = <<>>
    THEN Response(500, "Internal Server Error", NoBody)
    ELSE IF Head(clauses)[1] \in Bases(r.exc)
    THEN Response(Head(clauses)[2], r.msg, NoBody)
    ELSE Except(r, Tail(clauses))

\* Optional[...] fields of the request models
None == [some |-> FALSE, v |-> <<>>]
Some(x) == [some |-> TRUE, v |-> x]
Falsy(o) == ~o.some \/ Len(o.v) = 0
NoneStr == [some |-> FALSE, v |-> ""]
FalsyStr(o) == ~o.some \/ o.v = ""

(***************************************************************************)
(* api/models.py: the validators FastAPI runs on a request body before the *)
(* handler is called; a body that fails them is answered with 422.         *)
(***************************************************************************)
check_components_shape(v) == Len(v) = 4 /\ \A i \in 1 .. Len(v) : Len(v[i]) = 4
check_coords_len(v) == Len(v) = 4
check_method(v) == v \in {"components", "preset"}
valid_MetricInput(m) == check_components_shape(m.components) /\ check_coords_len(m.coords)
valid_StressEnergyInput(s) == check_method(s.definition_method)
valid_EFEVerificationRequest(r) ==
    valid_MetricInput(r.metric_input) /\ valid_StressEnergyInput(r.stress_energy_input)

(***************************************************************************)
(* A handler runs its statements in order inside one try block: log is the *)
(* list of core functions that have returned so far, and the first         *)
(* statement that raises ends the block.                                   *)
(***************************************************************************)
Done(log, r) == [stages |-> log, out |-> r]
\* x = r, r not a call of the core
Step(log, r, K(_)) == Let(r, LAMBDA x : IF x.ok THEN K(x.val) ELSE Done(log, x))
\* x = core.name(...)
Stage(log, name, r, K(_, _)) ==
    Let(r, LAMBDA x : IF x.ok THEN K(x.val, Append(log, name)) ELSE Done(log, x))
\* the except clauses of the try block turn what it raised into the answer
Handled(body, clauses) ==
    Let(body, LAMBDA b : [stages |-> b.stages, resp |-> Except(b.out, clauses)])

(***************************************************************************)
(* api/endpoints.py: POST /calculate/geometry                              *)
(***************************************************************************)
geometry_response(g, g_inv, gamma_array, riemann, ricci, ricci_s, einstein, log) ==
    Step(log, format_tensor_output(g), LAMBDA f_metric :
    Step(log, format_tensor_output(g_inv), LAMBDA f_inverse :
    Step(log, format_tensor_output(gamma_array), LAMBDA f_christoffel :
    Step(log, format_tensor_output(riemann), LAMBDA f_riemann :
    Step(log, format_tensor_output(ricci), LAMBDA f_ricci :
    Step(log, endpoints_simplify(ricci_s.e), LAMBDA f_scalar :
    Step(log, format_tensor_output(einstein), LAMBDA f_einstein :
        Done(log, Return([kind |-> "GeometryCalculationsResponse",
                          metric |-> f_metric,
                          inverse_metric |-> f_inverse,
                          christoffel |-> f_christoffel,
                          riemann |-> f_riemann,
                          ricci_tensor |-> f_ricci,
                          ricci_scalar |-> latex(f_scalar),
                          einstein_tensor |-> f_einstein])))))))))

geometry_curvature(g, g_inv, gamma_array, coords, log3) ==
    Stage(log3, "calculate_riemann_tensor",
          calculate_riemann_tensor(gamma_array, coords), LAMBDA riemann, log4 :
    Stage(log4, "calculate_ricci_tensor",
          calculate_ricci_tensor(riemann), LAMBDA ricci, log5 :
    Stage(log5, "calculate_ricci_scalar",
          calculate_ricci_scalar(ricci, g_inv), LAMBDA ricci_s, log6 :
    Stage(log6, "calculate_einstein_tensor",
          calculate_einstein_tensor(ricci, ricci_s, g), LAMBDA einstein, log7 :
        geometry_response(g, g_inv, gamma_array, riemann, ricci, ricci_s, einstein, log7)))))

calculate_all_geometry(metric_input) ==
    Handled(
        Let(parse_coords(metric_input.coords), LAMBDA coords :
        Step(<<>>, parse_components(metric_input.components), LAMBDA metric_components_sympy :
        Stage(<<>>, "create_metric_tensor",
              create_metric_tensor(metric_components_sympy, coords), LAMBDA g, log1 :
        Stage(log1, "calculate_inverse_metric",
              calculate_inverse_metric(g), LAMBDA g_inv, log2 :
        Stage(log2, "calculate_christoffel_symbols",
              calculate_christoffel_symbols(g, g_inv, coords), LAMBDA unpacked, log3 :
            \* gamma_array, christoffel_error = ...
            IF unpacked.e[2].type # "NoneType"
            THEN Done(log3, Raise("HTTPException500", "Error calculating Christoffel symbols"))
            ELSE geometry_curvature(g, g_inv, unpacked.e[1], coords, log3)))))),
        << <<"ValueError", 400>>, <<"NotImplementedError", 501>>, <<"Exception", 500>> >>)

(***************************************************************************)
(* api/endpoints.py: POST /calculate/stress-energy                         *)
(***************************************************************************)
lower(name) == IF name = "Vacuum" THEN "vacuum" ELSE name

\* {k: sympify(v) for k, v in (params or {}).items()}
sympify_params(params) ==
    IF \A k \in DOMAIN params : sympify(params[k]).ok
    THEN Return([k \in DOMAIN params |-> sympify(params[k]).val])
    ELSE Raise("SympifyError", "could not parse")

params_get(params_sympy, key, default) ==
    IF key \in DOMAIN params_sympy THEN params_sympy[key] ELSE default

stress_energy_response(T, log) ==
    Step(log, format_tensor_output(T), LAMBDA formatted :
        Done(log, Return([kind |-> "StressEnergyResponse",
                          stress_energy_tensor |-> formatted])))

stress_energy_preset(input_data, coords, preset_name, params_sympy) ==
    IF preset_name = "vacuum"
    THEN Stage(<<>>, "create_vacuum_tensor", create_vacuum_tensor, stress_energy_response)
    ELSE IF preset_name = "dust"
    THEN Stage(<<>>, "create_dust_tensor",
               create_dust_tensor(params_get(params_sympy, "density", Sym("rho")),
                                  default_four_velocity),
               stress_energy_response)
    ELSE IF preset_name = "perfect_fluid"
    THEN IF Falsy(input_data.metric_components)
         THEN Done(<<>>, Raise("ValueError",
                               "Metric components are required for perfect fluid preset."))
         ELSE Step(<<>>, parse_components(input_data.metric_components.v),
                   LAMBDA metric_components_sympy :
              Stage(<<>>, "create_metric_tensor",
                    create_metric_tensor(metric_components_sympy, coords), LAMBDA g, log1 :
              Stage(log1, "create_perfect_fluid_tensor",
                    create_perfect_fluid_tensor(
                        g, params_get(params_sympy, "density", Sym("rho")),
                        params_get(params_sympy, "pressure", Sym("p")),
                        default_four_velocity),
                    stress_energy_response)))
    ELSE Done(<<>>, Raise("ValueError", "Unknown preset name"))

calculate_stress_energy(input_data) ==
    Handled(
        Let(parse_coords(input_data.coords), LAMBDA coords :
            IF input_data.definition_method = "components"
            THEN IF Falsy(input_data.components)
                 THEN Done(<<>>, Raise("ValueError",
                                       "Components must be provided for method 'components'."))
                 ELSE Step(<<>>, parse_components(input_data.components.v),
                           LAMBDA components_sympy :
                      Stage(<<>>, "create_stress_energy_tensor_from_components",
                            create_stress_energy_tensor_from_components(components_sympy),
                            stress_energy_response))
            ELSE IF input_data.definition_method = "preset"
            THEN IF FalsyStr(input_data.preset_name)
                 THEN Done(<<>>, Raise("ValueError",
                                       "Preset name must be provided for method 'preset'."))
                 ELSE Step(<<>>, sympify_params(input_data.params), LAMBDA params_sympy :
                          stress_energy_preset(input_data, coords,
                                               lower(input_data.preset_name.v), params_sympy))
            ELSE Done(<<>>, Raise("ValueError", "Invalid definition_method."))),
        << <<"ValueError", 400>>, <<"SympifyError", 400>>, <<"Exception", 500>> >>)

(***************************************************************************)
(* api/endpoints.py: POST /verify/efe                                      *)
(***************************************************************************)
\* diff_tensor = G - kappa * T
efe_diff_tensor(G, kappa, T) ==
    MatrixV(LAMBDA i, j : ESub(At2(G, i, j), EMul(kappa, At2(T, i, j))))

\* the first (i, j) in row-major order with diff_tensor_simplified[i, j] != 0
first_mismatch(d) ==
    LET bad == {ij \in Idx \X Idx : ~is_S_Zero(At2(d, ij[1], ij[2]))}
    IN  CHOOSE ij \in bad : \A o \in bad : ij[1] * n_dim + ij[2] <= o[1] * n_dim + o[2]

\* steps 3 to 5: kappa, the comparison, the answer
efe_compare(request, G, T, log) ==
    Step(log, sympify(request.coupling_constant_str), LAMBDA kappa :
    Let(efe_diff_tensor(G, kappa, T), LAMBDA diff_tensor :
    \* diff_tensor.applyfunc(simplify)
    Step(log, endpoints_simplify(At2(diff_tensor, 0, 0)), LAMBDA applied :
    Let(MatrixV(LAMBDA i, j : simplify(At2(diff_tensor, i, j))),
        LAMBDA diff_tensor_simplified :
    Let(\A i \in Idx, j \in Idx : is_S_Zero(At2(diff_tensor_simplified, i, j)),
        LAMBDA is_verified :
        Done(log, Return([kind |-> "EFEVerificationResponse",
                          verified |-> is_verified,
                          message |-> IF is_verified THEN "EFEs satisfied."
                                      ELSE "EFEs NOT satisfied. Mismatch found in component",
                          component |-> IF is_verified THEN <<>>
                                        ELSE first_mismatch(diff_tensor_simplified),
                          \* {diff_tensor_simplified[i,j]} of the message
                          residual |-> IF is_verified THEN <<>>
                                       ELSE Let(first_mismatch(diff_tensor_simplified),
                                                LAMBDA ij : At2(diff_tensor_simplified,
                                                                ij[1], ij[2]))])))))))

\* step 2: T_munu from stress_energy_input
efe_stress_energy(request, se, metric_coords, g, G, log) ==
    IF metric_coords # parse_coords(se.coords)
    THEN Done(log, Raise("ValueError", "Metric and Stress-Energy tensor must use the same coordinate names for verification."))
    ELSE IF se.definition_method = "components"
    THEN IF Falsy(se.components)
         THEN Done(log, Raise("ValueError",
                   "Components must be provided for T_munu if method is 'components'."))
         ELSE Step(log, parse_components(se.components.v), LAMBDA T_comps_sympy :
              Stage(log, "create_stress_energy_tensor_from_components",
                    create_stress_energy_tensor_from_components(T_comps_sympy),
                    LAMBDA T, log8 : efe_compare(request, G, T, log8)))
    ELSE IF se.definition_method = "preset"
    THEN IF ~se.preset_name.some
         THEN Done(log, Raise("AttributeError", "'NoneType' object has no attribute 'lower'"))
         ELSE Let(lower(se.preset_name.v), LAMBDA preset_name :
              Step(log, sympify_params(se.params), LAMBDA params_sympy :
                  IF preset_name = "vacuum"
                  THEN Stage(log, "create_vacuum_tensor", create_vacuum_tensor,
                             LAMBDA T, log8 : efe_compare(request, G, T, log8))
                  ELSE IF preset_name = "dust"
                  THEN Stage(log, "create_dust_tensor",
                             create_dust_tensor(params_get(params_sympy, "density", Sym("rho")),
                                                default_four_velocity),
                             LAMBDA T, log8 : efe_compare(request, G, T, log8))
                  ELSE IF preset_name = "perfect_fluid"
                  THEN Stage(log, "create_perfect_fluid_tensor",
                             create_perfect_fluid_tensor(
                                 g, params_get(params_sympy, "density", Sym("rho")),
                                 params_get(params_sympy, "pressure", Sym("p")),
                                 default_four_velocity),
                             LAMBDA T, log8 : efe_compare(request, G, T, log8))
                  ELSE Done(log, Raise("ValueError", "Unknown preset name for T_munu"))))
    ELSE Done(log, Raise("ValueError", "Invalid definition_method for Stress-Energy tensor."))

\* step 1: G_munu from metric_input; the (list, error) pair of the Christoffel
\* call is kept whole in gamma
verify_efe(request) ==
    Handled(
        Let(parse_coords(request.metric_input.coords), LAMBDA metric_coords :
        Step(<<>>, parse_components(request.metric_input.components),
             LAMBDA metric_comps_sympy :
        Stage(<<>>, "create_metric_tensor",
              create_metric_tensor(metric_comps_sympy, metric_coords), LAMBDA g, log1 :
        Stage(log1, "calculate_inverse_metric",
              calculate_inverse_metric(g), LAMBDA g_inv, log2 :
        Stage(log2, "calculate_christoffel_symbols",
              calculate_christoffel_symbols(g, g_inv, metric_coords), LAMBDA gamma, log3 :
        Stage(log3, "calculate_riemann_tensor",
              calculate_riemann_tensor(gamma, metric_coords), LAMBDA riemann, log4 :
        Stage(log4, "calculate_ricci_tensor",
              calculate_ricci_tensor(riemann), LAMBDA ricci, log5 :
        Stage(log5, "calculate_ricci_scalar",
              calculate_ricci_scalar(ricci, g_inv), LAMBDA ricci_s, log6 :
        Stage(log6, "calculate_einstein_tensor",
              calculate_einstein_tensor(ricci, ricci_s, g), LAMBDA G, log7 :
            efe_stress_energy(request, request.stress_energy_input, metric_coords,
                              g, G, log7)))))))))),
        << <<"ValueError", 400>>, <<"SympifyError", 400>>, <<"Exception", 500>> >>)

(***************************************************************************)
(* api/endpoints.py: POST /calculate/geodesic.  The solver is the          *)
(* behaviour of the integrator on the request's problem.                   *)
(***************************************************************************)
\* {coord_name: states[:, i + offset].tolist() for i, coord_name in enumerate(input_data.coords)}
columns(names, states, offset) ==
    [c \in {names[i] : i \in 1 .. Len(names)} |->
        LET i == CHOOSE k \in 1 .. Len(names) :
                     names[k] = c /\ \A l \in (k + 1) .. Len(names) : names[l] # c
        IN  [k \in 1 .. Len(states) |-> states[k][i + offset]]]

geodesic_except(b) ==
    [stages |-> b.stages,
     resp |-> IF b.out.ok THEN Response(200, "", b.out.val)
              ELSE IF b.out.exc = NoReturn.exc THEN NoResp
              ELSE IF "ValueError" \in Bases(b.out.exc) THEN Response(400, b.out.msg, NoBody)
              ELSE IF "RuntimeError" \in Bases(b.out.exc)
              THEN Response(500, [text |-> "Runtime error during numerical integration: {e}",
                                  e |-> b.out.msg], NoBody)
              ELSE Response(500, [text |-> "Internal server error during calculation: {e}",
                                  e |-> b.out.msg], NoBody)]

calculate_single_geodesic(input_data, solver) ==
    Let(Let(parse_coords(input_data.coords), LAMBDA coords :
        Step(<<>>, parse_components(input_data.metric_components), LAMBDA parsed :
        Let(IF DOMAIN input_data.parameter_values # {}
            THEN subs_components(parsed, input_data.parameter_values)
            ELSE parsed, LAMBDA metric_components_sympy :
        Stage(<<>>, "create_metric_tensor",
              create_metric_tensor(metric_components_sympy, coords), LAMBDA g, log1 :
        Stage(log1, "calculate_inverse_metric",
              calculate_inverse_metric(g), LAMBDA g_inv, log2 :
        Stage(log2, "calculate_christoffel_symbols",
              calculate_christoffel_symbols(g, g_inv, coords), LAMBDA gamma, log3 :
        Step(log3, linspace(input_data.t_span[1], input_data.t_span[2], input_data.num_points),
             LAMBDA t_eval :
        Stage(log3, "calculate_geodesic",
              calculate_geodesic(gamma, coords, input_data.initial_position,
                                 input_data.initial_velocity, input_data.t_span, t_eval, solver),
              LAMBDA unpacked, log4 :
            Done(log4, Return([kind |-> "GeodesicOutput",
                               tau_values |-> unpacked.e[1],
                               position_coords |-> columns(input_data.coords, unpacked.e[2], 0),
                               velocity_coords |-> columns(input_data.coords, unpacked.e[2],
                                                           Len(coords)),
                               message |-> "Geodesic calculated successfully."])))))))))),
        LAMBDA b : geodesic_except(b))

(***************************************************************************)
(* api/endpoints.py: POST /calculate/embedding/flamm.  The message is the  *)
(* list of the pieces it is put together from.  Angles are counted in      *)
(* turns, and the cosine and the sine are those of the quarter turns.      *)
(***************************************************************************)
FloatGE(a, b) == a[1] * b[2] >= b[1] * a[2]
cos_turns(x) == CASE x \in {Float(0), Float(1)} -> Float(1)
                  [] x \in {Rat(1, 4), Rat(3, 4)} -> Float(0)
                  [] x = Rat(1, 2) -> Float(-1)
sin_turns(x) == CASE x \in {Float(0), Rat(1, 2), Float(1)} -> Float(0)
                  [] x = Rat(1, 4) -> Float(1)
                  [] x = Rat(3, 4) -> Float(-1)

\* lambdify(r_sym, z_function, 'numpy')(r): the complex number z(r), for z = c*r
z_lambdified(z, r) ==
    CASE z.kind = "linear" -> <<FloatMul(z.c[1], r), FloatMul(z.c[2], r)>>

\* np.iscomplexobj of the samples of z: those of an expression with I in it
iscomplexobj(z) == z.kind = "linear" /\ z.c[2] # Float(0)

NoData == [r_values |-> None, z_values |-> None, x_surface |-> None,
           y_surface |-> None, z_surface |-> None]

\* lines 246-303: what the numerical evaluation adds to the message, and the data
flamm_numerical_evaluation(z_function, input_data) ==
    LET free_syms == z_free_symbols(z_function)
        r_min_val ==
            IF input_data.r_min.some THEN input_data.r_min.v
            ELSE IF "M" \in DOMAIN input_data.parameter_values
                    /\ input_data.parameter_values["M"][1] > 0
            THEN FloatMul(FloatMul(Float(2), input_data.parameter_values["M"]), Rat(101, 100))
            ELSE Rat(1, 10)
        r_max_val == input_data.r_max
        r_vals == linspace(r_min_val, r_max_val, input_data.num_points_r).val
        phi_vals == linspace(Float(0), Float(1), input_data.num_points_phi).val
        \* np.real of the samples if they are complex, and the samples if not
        real(w) == w[1]
        mesh(F(_, _)) == [i \in 1 .. Len(phi_vals) |-> [j \in 1 .. Len(r_vals) |-> F(i, j)]]
    IN  IF Cardinality(free_syms) > 1 \/ (Cardinality(free_syms) = 1 /\ "r" \notin free_syms)
        THEN [message |-> <<[text |-> " (Warning: Cannot evaluate numerically due to symbols: {free_syms})",
                             free_syms |-> free_syms]>>,
              data |-> NoData]
        ELSE IF FloatGE(r_min_val, r_max_val)
        THEN [message |-> <<[text |-> " (Numerical evaluation skipped: r_min >= r_max)"]>>,
              data |-> NoData]
        ELSE IF free_syms = {}
        \* the function generated for a constant returns a Python number
        THEN [message |-> <<[text |-> " (Numerical evaluation failed: {num_err})",
                             num_err |-> "'int' object has no attribute 'tolist'"]>>,
              data |-> [NoData EXCEPT !.r_values = Some(r_vals)]]
        ELSE [message |-> <<[text |-> " Numerical data generated for r in [{r_min_val:.2f}, {r_max_val:.2f}].",
                             r_min_val |-> r_min_val, r_max_val |-> r_max_val]>>,
              data |-> [r_values |-> Some(r_vals),
                        z_values |-> Some([j \in 1 .. Len(r_vals) |->
                                              real(z_lambdified(z_function, r_vals[j]))]),
                        x_surface |-> Some(mesh(LAMBDA i, j :
                                              FloatMul(r_vals[j], cos_turns(phi_vals[i])))),
                        y_surface |-> Some(mesh(LAMBDA i, j :
                                              FloatMul(r_vals[j], sin_turns(phi_vals[i])))),
                        z_surface |-> Some(mesh(LAMBDA i, j :
                                              real(z_lambdified(z_function, r_vals[j]))))]]

EmbeddingOutput(z_latex, message, data) ==
    [kind |-> "EmbeddingOutput", z_function_latex |-> z_latex, message |-> message,
     r_values |-> data.r_values, z_values |-> data.z_values, x_surface |-> data.x_surface,
     y_surface |-> data.y_surface, z_surface |-> data.z_surface]

flamm_except(b) ==
    [stages |-> b.stages,
     resp |-> IF b.out.ok THEN Response(200, "", b.out.val)
              ELSE IF "ValueError" \in Bases(b.out.exc) THEN Response(400, b.out.msg, NoBody)
              ELSE Response(500, [text |-> "Internal server error during calculation: {e}",
                                  e |-> b.out.msg], NoBody)]

calculate_flamm_embedding(input_data, cas) ==
    Let(Let(parse_coords(input_data.metric_input.coords), LAMBDA coords :
        Step(<<>>, parse_components(input_data.metric_input.components),
             LAMBDA metric_components_sympy :
        Let(subs_components(metric_components_sympy, input_data.parameter_values),
            LAMBDA metric_components_num :
        Stage(<<>>, "create_metric_tensor",
              create_metric_tensor(metric_components_num, coords), LAMBDA g, log1 :
        Stage(log1, "calculate_flamms_paraboloid",
              calculate_flamms_paraboloid(g, coords, cas), LAMBDA unpacked, log2 :
            IF unpacked.e[2].type # "NoneType"
            THEN Done(log2, Return(EmbeddingOutput(
                     NoneStr, <<[text |-> "Failed: {error}", error |-> unpacked.e[2].e]>>,
                     NoData)))
            ELSE Let(flamm_numerical_evaluation(unpacked.e[1].e, input_data), LAMBDA numerical :
                     Done(log2, Return(EmbeddingOutput(
                         Some([latex |-> unpacked.e[1].e]),
                         <<[text |-> "Flamm's paraboloid embedding function z(r) calculated successfully."]>>
                             \o numerical.message,
                         numerical.data))))))))),
        LAMBDA b : flamm_except(b))

(***************************************************************************)
(* The inputs: component grids as the client writes them, coordinate       *)
(* lists, and the values the core functions are called with directly.      *)
(***************************************************************************)
MaxPow == 2

DiagText(a, b, c, d) ==
    Grid(4, 4, LAMBDA i, j : IF i # j THEN "0"
                             ELSE IF i = 0 THEN a ELSE IF i = 1 THEN b
                             ELSE IF i = 2 THEN c ELSE d)
\* a 2x2 block in the (t, r) corner, then r**2 and 1 on the diagonal
BlockText(g00, g01, g10, g11) ==
    Grid(4, 4, LAMBDA i, j : IF i = 0 /\ j = 0 THEN g00
                             ELSE IF i = 0 /\ j = 1 THEN g01
                             ELSE IF i = 1 /\ j = 0 THEN g10
                             ELSE IF i = 1 /\ j = 1 THEN g11
                             ELSE IF i = 2 /\ j = 2 THEN "r**2"
                             ELSE IF i = 3 /\ j = 3 THEN "1" ELSE "0")
Minkowski == DiagText("-1", "1", "1", "1")
Schwarzschild == DiagText("-(1-2*M/r)", "1/(1-2*M/r)", "r**2", "r**2*sin(theta)**2")
PowFamily == {DiagText("-1", TPowText[a + 1], RPowText[b + 1], RPowText[c + 1]) :
                 a \in 0 .. MaxPow, b \in 0 .. MaxPow, c \in 0 .. MaxPow}
SymmetricOffDiagonal == {BlockText("0", "1", "1", "r"), BlockText("0", "r", "r", "t")}
NonSymmetric == {BlockText("-1", "r", "0", "1"), BlockText("-1", "0", "t", "1")}
Unreduced == {DiagText("-1", "r*(t+1)-r*t", "1", "1"), BlockText("0", "r", "r*(t+1)-r*t", "1")}
SingularGrids == {DiagText("-1", "0", "r**2", "1"),
                  DiagText("-1", "sin(r)**2+cos(r)**2-1", "r**2", "1"),
                  BlockText("1", "r", "r", "r**2")}
CatalogGrids == {Minkowski, Schwarzschild} \cup SymmetricOffDiagonal \cup NonSymmetric
                    \cup Unreduced
InvertibleGrids == CatalogGrids \cup PowFamily
ValidGrids == InvertibleGrids \cup SingularGrids
Grid3x3 == Grid(3, 3, LAMBDA i, j : IF i = j THEN "1" ELSE "0")
RaggedGrid == [Minkowski EXCEPT ![4] = <<"0", "0", "0">>]
MalformedGrids == {Grid3x3, RaggedGrid}
UnparsableGrid == DiagText("-1", "r**", "1", "1")

DEFAULT_COORDS == <<"t", "r", "theta", "phi">>
CoordLists == {DEFAULT_COORDS, <<"t", "x", "y", "z">>, <<"t", "r", "theta">>,
               <<"t", "r", "theta", "phi", "psi">>}

Parsed(grid) == parse_components(grid).val
MetricOf(grid) == create_metric_tensor(Parsed(grid), DEFAULT_COORDS).val
InverseOf(grid) == calculate_inverse_metric(MetricOf(grid)).val
Matrix3x3 ==
    [type |-> "Matrix", shape |-> <<3, 3>>,
     e |-> <<<<EOne, EZero, EZero>>, <<EZero, EOne, EZero>>, <<EZero, EZero, EOne>>>>]
ListOfLists == [type |-> "list", shape |-> <<4, 4>>, e |-> MetricOf(Minkowski).e]

\* the arguments of a geodesic
GeodesicGrids == {Minkowski, Schwarzschild, DiagText("-1", "t", "r", "1")}
Positions == {Floats(<<0, 0, 0, 0>>), Floats(<<1, 2, 0, 0>>), Floats(<<1, 2, 0>>)}
FourVelocities == {Floats(<<1, 0, 0, 0>>), Floats(<<1, 1, 0, 2>>), Floats(<<0, 0, 0, 0>>),
                   Floats(<<-1, 0, 0, 0>>), Floats(<<1, -1, 0>>)}
MaxPoints == 3
\* where SymPy's simplify raises: nowhere, at one component, at two
SimplifyRaises == {{}, {<<0, 0>>}, {<<1, 2>>}, {<<3, 3>>, <<2, 1>>}}
\* the calls of SymPy in calculate_christoffel_symbols that raise when reached
RaisesAt(name, at) == [call |-> name, at |-> at]
ChristoffelRaises ==
    {{},
     {RaisesAt("diff(metric_comp, coord_symbol)", <<1, 0, 0>>)},
     {RaisesAt("simplify(derivative)", <<1, 1, 1>>)},
     {RaisesAt("simplify(sympy.Rational(1, 2) * sum_val)", <<0, 0, 1>>)},
     {RaisesAt("simplify(derivative)", <<0, 2, 2>>),
      RaisesAt("simplify(sympy.Rational(1, 2) * sum_val)", <<1, 2, 2>>)}}
Solvers == {<<"accepts">>, <<"gives_up", "accepts">>, <<"hangs">>}

(***************************************************************************)
(* The server: one request at a time is validated, handled and answered.   *)
(* A server that answers has imported its modules: its interpreter is one  *)
(* that defers the annotations of core/stress_energy.py.                   *)
(***************************************************************************)
NoCall == [fn |-> "none"]
NoReq == [endpoint |-> "none"]
\* the threads of the server that serve requests at the same time
MaxThreads == 2
Workers == 1 .. MaxThreads
\* the calculations that are created
MaxCalculations == 2
\* tests/test_api.py: an id that no calculation has
invalid_id == 999999
NoObjects == <<>>
NoHistory == [begun |-> FALSE]
NoFiles == [dir |-> <<>>, saved |-> <<>>]
NoRows == <<>>
Idle == [at |-> "idle", fn |-> "", status |-> 0]
NoParams == [k \in {} |-> ""]
FluidGrid == DiagText("rho", "p", "p", "p")

MetricInputs ==
    {[components |-> c, coords |-> k] :
        c \in ValidGrids \cup MalformedGrids \cup {UnparsableGrid}, k \in CoordLists}
StressEnergyInputs ==
    {[definition_method |-> m, components |-> c, preset_name |-> n, params |-> q,
      coords |-> k, metric_components |-> g] :
        m \in {"components", "preset", "formula"},
        c \in {None, Some(FluidGrid), Some(Grid3x3), Some(UnparsableGrid)},
        n \in {NoneStr, Some("vacuum"), Some("Vacuum"), Some("dust"),
               Some("perfect_fluid"), Some("radiation")},
        q \in {NoParams, "density" :> "M", "density" :> "r**"},
        k \in CoordLists,
        g \in {None, Some(Minkowski), Some(Schwarzschild), Some(Grid3x3)}}
EFEMetricInputs ==
    {[components |-> c, coords |-> k] :
        c \in CatalogGrids \cup SingularGrids \cup MalformedGrids \cup {UnparsableGrid},
        k \in {DEFAULT_COORDS, <<"t", "x", "y", "z">>, <<"t", "r", "theta">>}}
EFEStressEnergyInputs ==
    {s \in StressEnergyInputs :
        /\ s.metric_components = None
        /\ s.params = NoParams
        /\ s.definition_method # "formula"
        /\ s.components \in {None, Some(FluidGrid)}
        /\ s.preset_name \in {NoneStr, Some("vacuum"), Some("dust"), Some("radiation")}
        /\ s.components.some => s.definition_method = "components"
        /\ s.preset_name.some => s.definition_method = "preset"}
EFEVerificationRequests ==
    {[metric_input |-> m, stress_energy_input |-> s, coupling_constant_str |-> kq] :
        m \in EFEMetricInputs, s \in EFEStressEnergyInputs, kq \in {"1", "2"}}

ParameterGrid == DiagText("-1", "M", "r**2", "1")
\* radial components 1, 2, 0, M, r**2 and 1/(1-2*M/r), which depend on r and on
\* parameters at most, and t and r*(t+1)-r*t, which depend on t
EmbeddingGrids ==
    {Minkowski, Schwarzschild, ParameterGrid,
     DiagText("-1", "2", "r**2", "1"), DiagText("-1", "0", "r**2", "1"),
     DiagText("-1", "r**2", "r**2", "1"), DiagText("-1", "t", "r", "1"),
     DiagText("-1", "r*(t+1)-r*t", "1", "1"),
     DiagText("-1", "sin(r)**2+cos(r)**2-1", "r**2", "1")}
EmbeddingCoordLists == {DEFAULT_COORDS, <<"t", "x", "y", "z">>, <<"t", "r", "theta">>,
                        <<"r", "t", "theta", "phi">>}

\* a value for M goes with the grids in which M is a factor
GeodesicInputs ==
    {d \in [metric_components : GeodesicGrids \cup {ParameterGrid, Grid3x3, UnparsableGrid,
                                                     DiagText("-1", "0", "r**2", "1")},
            coords : {DEFAULT_COORDS, <<"t", "r", "theta">>},
            initial_position : Positions,
            initial_velocity : FourVelocities,
            t_span : {<<Float(0), Float(2)>>},
            num_points : (1 .. MaxPoints) \cup {-1},
            parameter_values : {NoParams, "M" :> Float(2)}] :
        DOMAIN d.parameter_values # {} => d.metric_components # Schwarzschild}

\* r_max and the numbers of points are given; M has a value where it is a factor.
\* The requests are those whose z(r), if it is a function of r alone, is sampled
\* by z_lambdified: g_rr = r**2 is left to the direct calls of the core.
EmbeddingInputs ==
    {d \in [metric_input : {[components |-> c, coords |-> k] :
                                c \in (EmbeddingGrids \ {DiagText("-1", "r**2", "r**2", "1")})
                                          \cup {UnparsableGrid, Grid3x3},
                                k \in EmbeddingCoordLists \ {<<"r", "t", "theta", "phi">>}},
            parameter_values : {NoParams, "M" :> Float(2), "M" :> Float(-3)},
            r_min : {None, Some(Float(1)), Some(Float(4))},
            r_max : {Float(3)},
            num_points_r : {2},
            num_points_phi : {3}] :
        DOMAIN d.parameter_values # {} => d.metric_input.components # Schwarzschild}

Init ==
    /\ call = NoCall
    /\ pc = "idle"
    /\ req = NoReq
    /\ stages = <<>>
    /\ resp = NoResp
    /\ objects = NoObjects
    /\ history = NoHistory
    /\ files = NoFiles
    /\ threads = [w \in Workers |-> Idle]
    /\ table = [rows |-> NoRows, next_id |-> 1, deleted |-> {}]
    /\ sessions = [w \in Workers |-> Idle]

Rejected == [stages |-> <<>>, resp |-> Response(422, "validation error", NoBody)]

PostGeometry ==
    /\ pc = "idle"
    /\ \E metric_input \in MetricInputs :
         \E handled \in {IF valid_MetricInput(metric_input) THEN calculate_all_geometry(metric_input) ELSE Rejected} :
             /\ req' = [endpoint |-> "/calculate/geometry", body |-> metric_input]
             /\ stages' = handled.stages
             /\ resp' = handled.resp
    /\ pc' = "done"
    /\ UNCHANGED <<call, python, scenarios, calculations>>

PostStressEnergy ==
    /\ pc = "idle"
    /\ \E input_data \in StressEnergyInputs :
         \E handled \in {IF valid_StressEnergyInput(input_data) THEN calculate_stress_energy(input_data) ELSE Rejected} :
             /\ req' = [endpoint |-> "/calculate/stress-energy", body |-> input_data]
             /\ stages' = handled.stages
             /\ resp' = handled.resp
    /\ pc' = "done"
    /\ UNCHANGED <<call, python, scenarios, calculations>>

PostVerifyEfe ==
    /\ pc = "idle"
    /\ \E request \in EFEVerificationRequests :
         \E handled \in {IF valid_EFEVerificationRequest(request) THEN verify_efe(request) ELSE Rejected} :
             /\ req' = [endpoint |-> "/verify/efe", body |-> request]
             /\ stages' = handled.stages
             /\ resp' = handled.resp
    /\ pc' = "done"
    /\ UNCHANGED <<call, python, scenarios, calculations>>

\* GeodesicInput has no validators: every body reaches the handler
PostGeodesic ==
    /\ pc = "idle"
    /\ \E input_data \in GeodesicInputs, solver \in Solvers :
         \E handled \in {calculate_single_geodesic(input_data, solver)} :
             /\ req' = [endpoint |-> "/calculate/geodesic", body |-> input_data]
             /\ stages' = handled.stages
             /\ resp' = handled.resp
             /\ pc' = IF handled.resp.status = NoResp.status THEN "running" ELSE "done"
    /\ UNCHANGED <<call, python, scenarios, calculations>>

\* sympy: what SymPy answers where the model does not compute it
PostFlammEmbedding ==
    /\ pc = "idle"
    /\ \E input_data \in EmbeddingInputs, cas \in Cas :
         \E handled \in {IF valid_MetricInput(input_data.metric_input)
                          THEN calculate_flamm_embedding(input_data, cas) ELSE Rejected} :
             /\ req' = [endpoint |-> "/calculate/embedding/flamm", body |-> input_data,
                        sympy |-> cas]
             /\ stages' = handled.stages
             /\ resp' = handled.resp
    /\ pc' = "done"
    /\ UNCHANGED <<call, python, scenarios, calculations>>

Finish ==
    /\ pc = "done"
    /\ pc' = "idle"
    /\ req' = NoReq
    /\ resp' = NoResp
    /\ stages' = <<>>
    /\ UNCHANGED <<call, python, scenarios, calculations>>

Next ==
    \/ PostGeometry
    \/ PostStressEnergy
    \/ PostVerifyEfe
    \/ PostGeodesic
    \/ PostFlammEmbedding
    \/ Finish

Spec == Init /\ [][Next]_vars

(***************************************************************************)
(* The core used directly, as the unit tests use it: one call of one core  *)
(* function on arguments drawn from the inputs above.                      *)
(***************************************************************************)
\* the same entries held in another container type
As(type, x) == [x EXCEPT !.type = type]
ChristoffelOf(grid, coords) ==
    calculate_christoffel_symbols(MetricOf(grid), InverseOf(grid), coords).val
\* a rank-4 array with the symmetries of a curvature tensor, built from a metric
CurvatureLike(g) ==
    [Array_zeros4 EXCEPT !.e =
        Nest4(LAMBDA a, b, c, d : ESub(EMul(At2(g, a, c), At2(g, b, d)),
                                       EMul(At2(g, a, d), At2(g, b, c))))]
\* a parameter with a default value: the argument if one is passed
OrDefault(argument, default) == IF argument.some THEN argument.v ELSE default

Call(fn, args, ret) == [fn |-> fn, args |-> args, ret |-> ret]
\* a call of a function of a module: the import comes first
From(module, ret) == IF module.ok THEN ret ELSE module

Call_create_metric_tensor ==
    /\ call.fn = "none"
    /\ \E args \in {<<Parsed(grid), coords>> :
                       grid \in ValidGrids \cup MalformedGrids, coords \in CoordLists} :
         call' = Call("create_metric_tensor", args, create_metric_tensor(args[1], args[2]))
    /\ UNCHANGED <<server, python, scenarios, calculations>>

Call_calculate_inverse_metric ==
    /\ call.fn = "none"
    /\ \E metric \in {MetricOf(grid) : grid \in ValidGrids} \cup {Matrix3x3, ListOfLists} :
         call' = Call("calculate_inverse_metric", <<metric>>,
                      calculate_inverse_metric(metric))
    /\ UNCHANGED <<server, python, scenarios, calculations>>

\* a metric with its own inverse, a metric with the inverse of another one, and
\* arguments of the wrong shape
Call_calculate_christoffel_symbols ==
    /\ call.fn = "none"
    /\ \E args \in
            {<<MetricOf(grid), InverseOf(grid), coords>> :
                grid \in InvertibleGrids, coords \in {DEFAULT_COORDS, <<"t", "x", "y", "z">>}}
            \cup {<<MetricOf(grid), InverseOf(other), DEFAULT_COORDS>> :
                     grid \in SingularGrids \cup {Schwarzschild},
                     other \in SymmetricOffDiagonal \cup {Minkowski}}
            \cup {<<Matrix3x3, InverseOf(Minkowski), DEFAULT_COORDS>>,
                  <<MetricOf(Minkowski), ListOfLists, DEFAULT_COORDS>>,
                  <<MetricOf(Minkowski), InverseOf(Minkowski), <<"t", "r", "theta">> >>} :
         call' = Call("calculate_christoffel_symbols", args,
                      calculate_christoffel_symbols(args[1], args[2], args[3]))
    /\ UNCHANGED <<server, python, scenarios, calculations>>

\* the same call where some calls of SymPy raise if the loops reach them
Call_calculate_christoffel_symbols_with ==
    /\ call.fn = "none"
    /\ \E grid \in {Minkowski, Schwarzschild} \cup PowFamily \cup SymmetricOffDiagonal :
         \E metric \in {MetricOf(grid)}, inverse_metric \in {InverseOf(grid)} :
             \E sympy_raises \in ChristoffelRaises,
                coords \in {DEFAULT_COORDS, <<"t", "r", "theta">>} :
                 call' = Call("calculate_christoffel_symbols_with",
                              <<sympy_raises, metric, inverse_metric, coords>>,
                              calculate_christoffel_symbols_with(
                                  sympy_raises, metric, inverse_metric, coords))
    /\ UNCHANGED <<server, python, scenarios, calculations>>

\* what the Christoffel step returns, as it is and held in each container type
Call_calculate_riemann_tensor ==
    /\ call.fn = "none"
    /\ \E gamma \in {ChristoffelOf(grid, DEFAULT_COORDS) : grid \in CatalogGrids},
          coords \in {DEFAULT_COORDS, <<"t", "r", "theta">>} :
         \E christoffel \in {gamma} \cup {As(type, gamma.e[1]) :
                                            type \in {"Array", "MutableArray", "list"}} :
             call' = Call("calculate_riemann_tensor", <<christoffel, coords>>,
                          calculate_riemann_tensor(christoffel, coords))
    /\ UNCHANGED <<server, python, scenarios, calculations>>

Call_calculate_ricci_tensor ==
    /\ call.fn = "none"
    /\ \E riemann_tensor \in {As(type, CurvatureLike(MetricOf(grid))) :
                                 grid \in CatalogGrids, type \in {"Array", "list"}} :
         call' = Call("calculate_ricci_tensor", <<riemann_tensor>>,
                      calculate_ricci_tensor(riemann_tensor))
    /\ UNCHANGED <<server, python, scenarios, calculations>>

Call_calculate_ricci_scalar ==
    /\ call.fn = "none"
    /\ \E args \in {<<MetricOf(ricci), As(type, InverseOf(grid))>> :
                       ricci \in CatalogGrids, grid \in CatalogGrids,
                       type \in {"Matrix", "list"}} :
         call' = Call("calculate_ricci_scalar", args,
                      calculate_ricci_scalar(args[1], args[2]))
    /\ UNCHANGED <<server, python, scenarios, calculations>>

Call_calculate_einstein_tensor ==
    /\ call.fn = "none"
    /\ \E args \in {<<As(type, MetricOf(ricci)), ExprV(scalar), MetricOf(grid)>> :
                       ricci \in CatalogGrids, grid \in InvertibleGrids,
                       type \in {"Matrix", "list"},
                       scalar \in {EZero, Sym("M"), sympify_values["sin(r)**2+cos(r)**2-1"]}
                                     \cup {PowOf("r", k) : k \in 0 .. MaxPow}} :
         call' = Call("calculate_einstein_tensor", args,
                      calculate_einstein_tensor(args[1], args[2], args[3]))
    /\ UNCHANGED <<server, python, scenarios, calculations>>

\* the same call where SymPy's simplify raises at some of the components
Call_calculate_einstein_tensor_with ==
    /\ call.fn = "none"
    /\ \E simplify_raises \in SimplifyRaises,
          ricci \in {Minkowski, Schwarzschild} \cup NonSymmetric,
          grid \in {Minkowski, Schwarzschild},
          type \in {"Matrix", "list"},
          scalar \in {EZero, Sym("M")} :
         LET args == <<simplify_raises, As(type, MetricOf(ricci)), ExprV(scalar), MetricOf(grid)>>
         IN  call' = Call("calculate_einstein_tensor_with", args,
                          calculate_einstein_tensor_with(args[1], args[2], args[3], args[4]))
    /\ UNCHANGED <<server, python, scenarios, calculations>>

Call_create_stress_energy_tensor_from_components ==
    /\ call.fn = "none"
    /\ \E components \in {Parsed(grid) :
                             grid \in {FluidGrid, Grid3x3, RaggedGrid} \cup CatalogGrids},
          annotations \in Annotations :
         call' = Call("create_stress_energy_tensor_from_components", <<components>>,
                      From(import_stress_energy(annotations),
                           create_stress_energy_tensor_from_components(components)))
    /\ UNCHANGED <<server, python, scenarios, calculations>>

Call_create_vacuum_tensor ==
    /\ call.fn = "none"
    /\ \E annotations \in Annotations :
         call' = Call("create_vacuum_tensor", <<>>,
                      From(import_stress_energy(annotations), create_vacuum_tensor))
    /\ UNCHANGED <<server, python, scenarios, calculations>>

\* the keyword arguments of the builders: None where the argument is not passed
Densities == {None} \cup {Some(e) : e \in {Sym("M"), PowOf("r", 2), EZero}}
Pressures == {None} \cup {Some(e) : e \in {EZero, Sym("r")}}
Velocities == {None, Some(default_four_velocity), Some(<<EOne, Sym("r"), EZero, EZero>>),
               Some(<<Ex(PConst(-1)), EZero, EZero>>)}

Call_create_dust_tensor ==
    /\ call.fn = "none"
    /\ \E density \in Densities, four_velocity \in Velocities,
          annotations \in Annotations :
         call' = Call("create_dust_tensor", <<density, four_velocity>>,
                      From(import_stress_energy(annotations),
                           create_dust_tensor(
                               OrDefault(density, rho),
                               OrDefault(four_velocity, default_four_velocity))))
    /\ UNCHANGED <<server, python, scenarios, calculations>>

Call_create_perfect_fluid_tensor ==
    /\ call.fn = "none"
    /\ \E metric \in {MetricOf(grid) : grid \in CatalogGrids} \cup {Matrix3x3, ListOfLists},
          density \in Densities, pressure \in Pressures, four_velocity \in Velocities,
          annotations \in Annotations :
         call' = Call("create_perfect_fluid_tensor",
                      <<metric, density, pressure, four_velocity>>,
                      From(import_stress_energy(annotations),
                           create_perfect_fluid_tensor(
                               metric, OrDefault(density, rho), OrDefault(pressure, p),
                               OrDefault(four_velocity, default_four_velocity))))
    /\ UNCHANGED <<server, python, scenarios, calculations>>

Call_calculate_geodesic ==
    /\ call.fn = "none"
    /\ \E gamma \in {ChristoffelOf(grid, DEFAULT_COORDS) : grid \in GeodesicGrids},
          coords \in {DEFAULT_COORDS, <<"t", "r", "theta">>},
          initial_pos \in Positions, initial_vel \in FourVelocities,
          num_points \in 1 .. MaxPoints, solver \in Solvers :
         \E christoffel \in {As("Array", gamma.e[1])}
                                \cup (IF gamma.e[1] = ChristoffelOf(Minkowski, DEFAULT_COORDS).e[1]
                                      THEN {gamma, gamma.e[1]} ELSE {}) :
             LET t_span == <<Float(0), Float(2)>>
                 t_eval == linspace(t_span[1], t_span[2], num_points).val
             IN  call' = Call("calculate_geodesic",
                              <<christoffel, coords, initial_pos, initial_vel, t_span, t_eval, solver>>,
                              calculate_geodesic(christoffel, coords, initial_pos, initial_vel,
                                                 t_span, t_eval, solver))
    /\ UNCHANGED <<server, python, scenarios, calculations>>

\* the right-hand side that calculate_geodesic hands to the solver, called as
\* the solver calls it: at a time tau and a state y = (x, u)
Call_ode_func ==
    /\ call.fn = "none"
    /\ \E christoffel \in {As("Array", ChristoffelOf(grid, DEFAULT_COORDS).e[1]) :
                               grid \in GeodesicGrids},
          coords \in {DEFAULT_COORDS, <<"t", "r", "theta">>} :
         \E made \in {geodesic_ode_system(
                          Nest3(LAMBDA lam, mu, nu :
                                   lambdify(coords, At3(christoffel, lam, mu, nu))),
                          coords)} :
             \E x \in {pos \in Positions : Len(pos) = 4},
                u \in {vel \in FourVelocities : Len(vel) = 4} :
                 call' = Call("ode_func", <<christoffel, coords, Float(0), x \o u>>,
                              IF made.ok THEN ode_func(made.val, Float(0), x \o u) ELSE made)
    /\ UNCHANGED <<server, python, scenarios, calculations>>

Call_calculate_flamms_paraboloid ==
    /\ call.fn = "none"
    /\ \E metric \in {MetricOf(grid) : grid \in EmbeddingGrids} \cup {Matrix3x3, ListOfLists},
          coords \in EmbeddingCoordLists, cas \in Cas :
         call' = Call("calculate_flamms_paraboloid", <<metric, coords, cas>>,
                      calculate_flamms_paraboloid(metric, coords, cas))
    /\ UNCHANGED <<server, python, scenarios, calculations>>

\* the tensors the endpoints hand over: matrices, the nested list that
\* calculate_christoffel_symbols returns, arrays of rank 3 and of rank 4
Call_format_tensor_output ==
    /\ call.fn = "none"
    /\ \E grid \in CatalogGrids, held \in {"Matrix", "list", "Array", "Array4"} :
         \E tensor \in {CASE held = "Matrix" -> MetricOf(grid)
                          [] held = "list" -> ChristoffelOf(grid, DEFAULT_COORDS).e[1]
                          [] held = "Array" ->
                                 As("Array", ChristoffelOf(grid, DEFAULT_COORDS).e[1])
                          [] held = "Array4" -> CurvatureLike(MetricOf(grid))} :
             call' = Call("format_tensor_output", <<tensor>>, format_tensor_output(tensor))
    /\ UNCHANGED <<server, python, scenarios, calculations>>

CoreNext ==
    \/ Call_format_tensor_output
    \/ Call_calculate_geodesic
    \/ Call_ode_func
    \/ Call_calculate_flamms_paraboloid
    \/ Call_create_metric_tensor
    \/ Call_calculate_inverse_metric
    \/ Call_calculate_christoffel_symbols
    \/ Call_calculate_christoffel_symbols_with
    \/ Call_calculate_riemann_tensor
    \/ Call_calculate_ricci_tensor
    \/ Call_calculate_ricci_scalar
    \/ Call_calculate_einstein_tensor
    \/ Call_calculate_einstein_tensor_with
    \/ Call_create_stress_energy_tensor_from_components
    \/ Call_create_vacuum_tensor
    \/ Call_create_dust_tensor
    \/ Call_create_perfect_fluid_tensor

CoreSpec == Init /\ [][CoreNext]_vars

(***************************************************************************)
(* A Python session that uses the core builders one call after another.    *)
(* objects holds, by name, the objects that outlive a call: the            *)
(* module-level values, the default values of the parameters (created once, *)
(* when the def statement runs) and the caller's own arguments.  A call is  *)
(* given objects; each store "x[i, j] = ..." of its body goes to the object *)
(* x is bound to, which is one of them or an object the body has created.   *)
(***************************************************************************)
New == "(new)"

InitialObjects(grid) ==
    ("metric.DEFAULT_COORDS" :> DEFAULT_COORDS)
    @@ ("stress_energy.rho" :> rho)
    @@ ("stress_energy.p" :> p)
    @@ ("create_dust_tensor.four_velocity" :> default_four_velocity)
    @@ ("create_perfect_fluid_tensor.four_velocity" :> default_four_velocity)
    @@ ("components" :> Parsed(grid))
    @@ ("coords" :> <<"t", "r", "theta", "phi">>)
    @@ ("metric" :> MetricOf(grid))
    @@ ("inverse_metric" :> InverseOf(grid))
    @@ ("christoffel" :> As("Array", ChristoffelOf(grid, DEFAULT_COORDS).e[1]))
    @@ ("riemann_tensor" :> CurvatureLike(MetricOf(grid)))
    @@ ("ricci_tensor" :> MetricOf(grid))
    @@ ("ricci_scalar" :> ExprV(Sym("M")))
    @@ ("density" :> Sym("M"))
    @@ ("pressure" :> Sym("r"))
    @@ ("four_velocity" :> <<EOne, Sym("r"), EZero, EZero>>)

\* the stores of a body whose result starts as its first argument
\* ("einstein_tensor = ricci_tensor") instead of as a new object
writes_when_the_result_is_the_argument(fn, args) ==
    IF fn = "calculate_einstein_tensor" THEN {args[1]} ELSE {}

\* the objects the body of fn stores into
writes(fn, args) ==
    CASE fn = "calculate_christoffel_symbols" -> {New}   \* dg, christoffel: zeros(...)
      [] fn = "calculate_riemann_tensor" -> {New}        \* riemann, dGamma: Array.zeros(...)
      [] fn = "calculate_ricci_tensor" -> {New}          \* ricci_tensor = Matrix.zeros(n, n)
      [] fn = "calculate_einstein_tensor" -> {New}       \* einstein_tensor = ricci_tensor - (...)
      [] fn = "create_dust_tensor" -> {New}              \* tensor = Matrix.zeros(4, 4)
      [] fn = "create_perfect_fluid_tensor" -> {New}     \* tensor = Matrix.zeros(4, 4)
      [] OTHER -> {}                                     \* no store in the body

\* fn(*args) on the objects objs
Apply(fn, args, objs, annotations) ==
    LET a(i) == objs[args[i]]
    IN  CASE fn = "create_metric_tensor" -> create_metric_tensor(a(1), a(2))
          [] fn = "calculate_inverse_metric" -> calculate_inverse_metric(a(1))
          [] fn = "calculate_christoffel_symbols" ->
                 calculate_christoffel_symbols(a(1), a(2), a(3))
          [] fn = "calculate_riemann_tensor" -> calculate_riemann_tensor(a(1), a(2))
          [] fn = "calculate_ricci_tensor" -> calculate_ricci_tensor(a(1))
          [] fn = "calculate_ricci_scalar" -> calculate_ricci_scalar(a(1), a(2))
          [] fn = "calculate_einstein_tensor" -> calculate_einstein_tensor(a(1), a(2), a(3))
          [] fn = "create_stress_energy_tensor_from_components" ->
                 From(import_stress_energy(annotations),
                      create_stress_energy_tensor_from_components(a(1)))
          [] fn = "create_vacuum_tensor" ->
                 From(import_stress_energy(annotations), create_vacuum_tensor)
          [] fn = "create_dust_tensor" ->
                 From(import_stress_energy(annotations), create_dust_tensor(a(1), a(2)))
          [] fn = "create_perfect_fluid_tensor" ->
                 From(import_stress_energy(annotations),
                      create_perfect_fluid_tensor(a(1), a(2), a(3), a(4)))

\* one call: what it returns, and what its stores leave in the objects
Invoke(fn, args) ==
    /\ history.begun
    /\ \E ret \in {Apply(fn, args, objects, history.annotations)} :
           /\ objects' = [o \in DOMAIN objects |->
                             IF ret.ok /\ o \in writes(fn, args) THEN ret.val ELSE objects[o]]
           /\ history' = [history EXCEPT !.last = Call(fn, args, ret),
                                          !.previous = history.last.fn]
    /\ UNCHANGED <<call, server, scenarios, calculations>>

SessionGrids == {Minkowski, Schwarzschild} \cup NonSymmetric

Session_begin ==
    /\ ~history.begun
    /\ \E grid \in SessionGrids, annotations \in Annotations :
         /\ objects' = InitialObjects(grid)
         /\ history' = [begun |-> TRUE, grid |-> grid, annotations |-> annotations,
                        last |-> NoCall, previous |-> "none"]
    /\ UNCHANGED <<call, server, scenarios, calculations>>

Session_create_metric_tensor ==
    \E coords \in {"coords", "metric.DEFAULT_COORDS"} :
        Invoke("create_metric_tensor", <<"components", coords>>)

Session_calculate_inverse_metric == Invoke("calculate_inverse_metric", <<"metric">>)

Session_calculate_christoffel_symbols ==
    \E coords \in {"coords", "metric.DEFAULT_COORDS"} :
        Invoke("calculate_christoffel_symbols", <<"metric", "inverse_metric", coords>>)

Session_calculate_riemann_tensor ==
    Invoke("calculate_riemann_tensor", <<"christoffel", "coords">>)

Session_calculate_ricci_tensor == Invoke("calculate_ricci_tensor", <<"riemann_tensor">>)

Session_calculate_ricci_scalar ==
    Invoke("calculate_ricci_scalar", <<"ricci_tensor", "inverse_metric">>)

Session_calculate_einstein_tensor ==
    Invoke("calculate_einstein_tensor", <<"ricci_tensor", "ricci_scalar", "metric">>)

Session_create_stress_energy_tensor_from_components ==
    Invoke("create_stress_energy_tensor_from_components", <<"components">>)

Session_create_vacuum_tensor == Invoke("create_vacuum_tensor", <<>>)

\* a parameter that is not passed is bound to its default object
Session_create_dust_tensor ==
    \E density \in {"density", "stress_energy.rho"},
       four_velocity \in {"four_velocity", "create_dust_tensor.four_velocity"} :
        Invoke("create_dust_tensor", <<density, four_velocity>>)

Session_create_perfect_fluid_tensor ==
    \E density \in {"density", "stress_energy.rho"},
       pressure \in {"pressure", "stress_energy.p"},
       four_velocity \in {"four_velocity", "create_perfect_fluid_tensor.four_velocity"} :
        Invoke("create_perfect_fluid_tensor", <<"metric", density, pressure, four_velocity>>)

SessionNext ==
    \/ Session_begin
    \/ Session_create_metric_tensor
    \/ Session_calculate_inverse_metric
    \/ Session_calculate_christoffel_symbols
    \/ Session_calculate_riemann_tensor
    \/ Session_calculate_ricci_tensor
    \/ Session_calculate_ricci_scalar
    \/ Session_calculate_einstein_tensor
    \/ Session_create_stress_energy_tensor_from_components
    \/ Session_create_vacuum_tensor
    \/ Session_create_dust_tensor
    \/ Session_create_perfect_fluid_tensor

SessionSpec == Init /\ [][SessionNext]_vars

(***************************************************************************)
(* api/endpoints.py, the scenario endpoints.  The handlers are plain defs, *)
(* so the server runs each request in a thread of its pool: a handler is a *)
(* sequence of steps, one per operation on SCENARIO_DIR, and the steps of  *)
(* the requests being served interleave.  A name is the sequence of its    *)
(* characters; the text of a file is the sequence of its JSON tokens.      *)
(***************************************************************************)
Suffix == <<".", "j", "s", "o", "n">>
\* SCENARIO_DIR / f"{scenario_name}.json"
file_path_of(scenario_name) == scenario_name \o Suffix
LastDot(name) ==
    IF \E i \in 1 .. Len(name) : name[i] = "."
    THEN CHOOSE i \in 1 .. Len(name) : name[i] = "." /\ \A j \in i + 1 .. Len(name) : name[j] # "."
    ELSE 0
\* Path.stem: the file name without its last suffix
stem(name) == IF LastDot(name) > 1 THEN SubSeq(name, 1, LastDot(name) - 1) ELSE name
\* glob("*.json")
is_json(name) ==
    Len(name) >= Len(Suffix) /\ SubSeq(name, Len(name) - Len(Suffix) + 1, Len(name)) = Suffix

\* the order of str: character by character, by code point
CodePoints == <<".", "a", "b", "j", "n", "o", "s">>
ord(c) == CHOOSE i \in 1 .. Len(CodePoints) : CodePoints[i] = c
RECURSIVE str_lt(_, _)
str_lt(a, b) ==
    IF b = <<>> THEN FALSE
    ELSE IF a = <<>> THEN TRUE
    ELSE IF a[1] # b[1] THEN ord(a[1]) < ord(b[1])
    ELSE str_lt(Tail(a), Tail(b))
RECURSIVE sorted(_)
sorted(names) ==
    IF names = {} THEN <<>>
    ELSE LET least == CHOOSE a \in names : \A b \in names \ {a} : str_lt(a, b)
         IN  <<least>> \o sorted(names \ {least})

\* models.py, SaveScenarioInput.validate_name
validate_name(v) ==
    IF v = <<>> \/ \E i \in 1 .. Len(v) : v[i] \in {"/", "\\", "."}
    THEN Raise("ValueError", "Scenario name cannot be empty or contain '/', '\\', '.'")
    ELSE Return(v)

\* definition.model_dump_json(indent=2)
model_dump_json(definition) ==
    <<"{", "\"metric_input\":", definition.metric_input, ",",
      "\"stress_energy_input\":", definition.stress_energy_input, "}">>
\* json.load(f)
json_load(text) ==
    IF Len(text) = 7 /\ text[1] = "{" /\ text[7] = "}"
    THEN Return([metric_input |-> text[3], stress_energy_input |-> text[6]])
    ELSE Raise("JSONDecodeError", "Expecting value: line 1 column 1 (char 0)")
\* the names endpoints.py binds from .models (lines 21-29)
models_import ==
    {"MetricInput", "GeometryCalculationsResponse", "SymbolicTensorOutput",
     "SymbolicScalarOutput", "StressEnergyInput", "StressEnergyResponse", "GeodesicInput",
     "GeodesicOutput", "EFEVerificationRequest", "EFEVerificationResponse",
     "EmbeddingInput", "EmbeddingOutput", "SaveScenarioInput", "ScenarioListOutput",
     "ScenarioLoadOutput", "DefinitionItem", "DefinitionsOutput"}
\* ScenarioDefinition(**data), evaluated in endpoints.py
ScenarioDefinition(data) ==
    IF "ScenarioDefinition" \in models_import
    THEN Return(data)
    ELSE Raise("NameError", "name 'ScenarioDefinition' is not defined")

ScenarioNames == {<<"a">>, <<"b">>, <<"a", ".", "b">>}
ScenarioDefinitions ==
    {[metric_input |-> "Minkowski", stress_energy_input |-> "vacuum"],
     [metric_input |-> "Schwarzschild", stress_energy_input |-> "dust"]}
NoDefinition == [metric_input |-> "", stress_energy_input |-> ""]

\* a request being served, and its answer; saved_on_arrival and overtaken
\* record, for the properties, the names that had been saved when the request
\* arrived and whether a save of its name has succeeded while it was served
Serving(fn, at, scenario_name, definition) ==
    [at |-> at, fn |-> fn, scenario_name |-> scenario_name, definition |-> definition,
     saved_on_arrival |-> DOMAIN files.saved,
     overtaken |-> FALSE, status |-> 0, detail |-> "", names |-> <<>>,
     loaded |-> NoDefinition]
Answer(thread, status, detail) ==
    [thread EXCEPT !.at = "done", !.status = status, !.detail = detail]
Free(w) == threads[w].at \in {"idle", "done"}
At(w, fn, at) == threads[w].at = at /\ threads[w].fn = fn

\* POST /scenarios arrives; the body is validated before the handler runs
save_scenario_request(w) ==
    /\ Free(w)
    /\ \E scenario_name \in ScenarioNames, definition \in ScenarioDefinitions :
         threads' = [threads EXCEPT ![w] =
             IF validate_name(scenario_name).ok
             THEN Serving("save_scenario", "file_path.exists()", scenario_name, definition)
             ELSE Answer(Serving("save_scenario", "", scenario_name, definition),
                         422, validate_name(scenario_name).msg)]
    /\ UNCHANGED <<call, server, python, files, calculations>>

\* if file_path.exists(): raise HTTPException(status_code=409, ...)
save_scenario_exists(w) ==
    /\ At(w, "save_scenario", "file_path.exists()")
    /\ threads' = [threads EXCEPT ![w] =
           IF file_path_of(@.scenario_name) \in DOMAIN files.dir
           THEN Answer(@, 409, "Scenario '{scenario_name}' already exists.")
           ELSE [@ EXCEPT !.at = "open(file_path, \"w\")"]]
    /\ UNCHANGED <<call, server, python, files, calculations>>

\* open(file_path, "w"): the file is created, or emptied if there is one
save_scenario_open(w) ==
    /\ At(w, "save_scenario", "open(file_path, \"w\")")
    /\ files' = [files EXCEPT !.dir =
           (file_path_of(threads[w].scenario_name) :> <<>>) @@ @]
    /\ threads' = [threads EXCEPT ![w].at = "f.write(json_data)"]
    /\ UNCHANGED <<call, server, python, calculations>>

\* f.write(json_data), the file is closed, and the message is returned
save_scenario_write(w) ==
    /\ At(w, "save_scenario", "f.write(json_data)")
    /\ LET scenario_name == threads[w].scenario_name
           json_data == model_dump_json(threads[w].definition)
       IN  /\ files' = [dir |-> (file_path_of(scenario_name) :> json_data) @@ files.dir,
                        saved |-> files.saved @@ (scenario_name :> json_data)]
           /\ threads' = [v \in Workers |->
                  IF v = w
                  THEN Answer(threads[w], 201, "Scenario '{scenario_name}' saved successfully.")
                  ELSE IF ~Free(v) /\ threads[v].fn = "save_scenario"
                          /\ threads[v].scenario_name = scenario_name
                  THEN [threads[v] EXCEPT !.overtaken = TRUE]
                  ELSE threads[v]]
    /\ UNCHANGED <<call, server, python, calculations>>

\* GET /scenarios: the stems of the *.json files, sorted
list_scenarios(w) ==
    /\ Free(w)
    /\ threads' = [threads EXCEPT ![w] =
           [Answer(Serving("list_scenarios", "", <<>>, NoDefinition), 200, "")
               EXCEPT !.names = sorted({stem(f) : f \in {g \in DOMAIN files.dir : is_json(g)}})]]
    /\ UNCHANGED <<call, server, python, files, calculations>>

\* GET /scenarios/{scenario_name} arrives
load_scenario_request(w) ==
    /\ Free(w)
    /\ \E scenario_name \in ScenarioNames :
         threads' = [threads EXCEPT ![w] =
             Serving("load_scenario", "file_path.exists()", scenario_name, NoDefinition)]
    /\ UNCHANGED <<call, server, python, files, calculations>>

\* if not file_path.exists() or not file_path.is_file(): raise HTTPException(404)
load_scenario_exists(w) ==
    /\ At(w, "load_scenario", "file_path.exists()")
    /\ threads' = [threads EXCEPT ![w] =
           IF file_path_of(@.scenario_name) \notin DOMAIN files.dir
           THEN Answer(@, 404, "Scenario '{scenario_name}' not found.")
           ELSE [@ EXCEPT !.at = "json.load(f)"]]
    /\ UNCHANGED <<call, server, python, files, calculations>>

\* the try block: json.load(f), ScenarioDefinition(**data), and its except clauses
load_scenario_read(w) ==
    /\ At(w, "load_scenario", "json.load(f)")
    /\ \E data \in {json_load(files.dir[file_path_of(threads[w].scenario_name)])} :
        \E definition \in {IF data.ok THEN ScenarioDefinition(data.val) ELSE data} :
         threads' = [threads EXCEPT ![w] =
             IF definition.ok
             THEN [Answer(@, 200, "") EXCEPT !.loaded = definition.val]
             ELSE IF definition.exc = "JSONDecodeError"
             THEN Answer(@, 500, "Could not parse scenario file '{scenario_name}'.")
             ELSE Answer(@, 500, "Could not load scenario '{scenario_name}': {e}")]
    /\ UNCHANGED <<call, server, python, files, calculations>>

ScenarioNext ==
    \E w \in Workers :
        \/ save_scenario_request(w)
        \/ save_scenario_exists(w)
        \/ save_scenario_open(w)
        \/ save_scenario_write(w)
        \/ list_scenarios(w)
        \/ load_scenario_request(w)
        \/ load_scenario_exists(w)
        \/ load_scenario_read(w)

ScenarioSpec == Init /\ [][ScenarioNext]_vars

(***************************************************************************)
(* api/v1/endpoints/calculations.py and crud/calculation.py, the router    *)
(* that main-Patches.py mounts.  Each request has a Session of its own; a  *)
(* handler is a sequence of steps, one per statement its Session sends to  *)
(* the database, each seeing what has been committed, and the steps of the *)
(* requests being served interleave.  The primary key comes from a         *)
(* sequence, so an id is not given twice.                                  *)
(***************************************************************************)
Row(id, metric_name, result) == [id |-> id, metric_name |-> metric_name, result |-> result]
NoRow == Row(0, "", "")
Results == {"{\"status\": \"error\", \"message\": \"Invalid calculation\"}", "{\"value\": 1}"}
CalculationIds == (1 .. MaxCalculations) \cup {invalid_id}

\* a request being served and its answer; calculation is the object its
\* Session holds.  found, removed and deleted_on_arrival record, for the
\* properties, the row of the id when the handler first looked for it, the
\* row its DELETE removed, and whether the id had been deleted on arrival
Request(fn, at, calculation_id, result) ==
    [at |-> at, fn |-> fn, calculation_id |-> calculation_id, result |-> result,
     calculation |-> NoRow, status |-> 0, detail |-> "", body |-> NoRow,
     found |-> NoRow, removed |-> NoRow,
     deleted_on_arrival |-> calculation_id \in table.deleted]
Reply(session, status, detail, body) ==
    [session EXCEPT !.at = "done", !.status = status, !.detail = detail, !.body = body]
\* an exception no handler catches
InternalServerError(session, exc) == Reply(session, 500, exc, NoRow)
Open(w) == sessions[w].at \in {"idle", "done"}
In(w, fn, at) == sessions[w].at = at /\ sessions[w].fn = fn
\* db.query(Calculation).filter(Calculation.id == calculation_id).first()
get_calculation(calculation_id) ==
    IF calculation_id \in DOMAIN table.rows THEN table.rows[calculation_id] ELSE NoRow
RowsWithout(rows, id) == [i \in DOMAIN rows \ {id} |-> rows[i]]

\* POST /: crud.create_calculation up to db.commit()
create_calculation_commit(w) ==
    /\ Open(w)
    /\ table.next_id <= MaxCalculations
    /\ \E metric_name \in {"Schwarzschild"} :
         /\ table' = [table EXCEPT
                !.rows = (table.next_id :> Row(table.next_id, metric_name, "{}")) @@ @,
                !.next_id = @ + 1]
         /\ sessions' = [sessions EXCEPT ![w] =
                [Request("create_calculation", "db.refresh(db_calculation)",
                         table.next_id, "{}")
                    EXCEPT !.calculation = Row(table.next_id, metric_name, "{}")]]
    /\ UNCHANGED <<call, server, python, scenarios>>

\* db.refresh(db_calculation); return db_calculation
create_calculation_refresh(w) ==
    /\ In(w, "create_calculation", "db.refresh(db_calculation)")
    /\ sessions' = [sessions EXCEPT ![w] =
           IF @.calculation_id \in DOMAIN table.rows
           THEN Reply(@, 200, "", table.rows[@.calculation_id])
           ELSE InternalServerError(@, "InvalidRequestError")]
    /\ UNCHANGED <<call, server, python, scenarios, table>>

\* GET /{calculation_id}
read_calculation(w) ==
    /\ Open(w)
    /\ \E calculation_id \in CalculationIds :
         sessions' = [sessions EXCEPT ![w] =
            LET request == [Request("read_calculation", "", calculation_id, "")
                               EXCEPT !.found = get_calculation(calculation_id)]
            IN  IF get_calculation(calculation_id) = NoRow
                THEN Reply(request, 404, "Calculation not found", NoRow)
                ELSE Reply(request, 200, "", get_calculation(calculation_id))]
    /\ UNCHANGED <<call, server, python, scenarios, table>>

\* PUT /{calculation_id}/result: db_calculation = get_calculation(db, calculation_id)
update_calculation_result_get(w) ==
    /\ Open(w)
    /\ \E calculation_id \in CalculationIds, result \in Results :
         sessions' = [sessions EXCEPT ![w] =
            LET request == [Request("update_calculation_result", "db.commit()",
                                    calculation_id, result)
                               EXCEPT !.found = get_calculation(calculation_id),
                                      !.calculation = get_calculation(calculation_id)]
            IN  IF get_calculation(calculation_id) = NoRow
                THEN Reply(request, 404, "Calculation not found", NoRow)
                ELSE request]
    /\ UNCHANGED <<call, server, python, scenarios, table>>

\* db_calculation.result = result; db.commit(): an UPDATE of the row of the id
update_calculation_result_commit(w) ==
    /\ In(w, "update_calculation_result", "db.commit()")
    /\ LET id == sessions[w].calculation_id
       IN  IF id \in DOMAIN table.rows
           THEN /\ table' = [table EXCEPT !.rows[id].result = sessions[w].result]
                /\ sessions' = [sessions EXCEPT ![w].at = "db.refresh(db_calculation)"]
           ELSE /\ sessions' = [sessions EXCEPT ![w] = InternalServerError(@, "StaleDataError")]
                /\ UNCHANGED table
    /\ UNCHANGED <<call, server, python, scenarios>>

\* db.refresh(db_calculation); return db_calculation
update_calculation_result_refresh(w) ==
    /\ In(w, "update_calculation_result", "db.refresh(db_calculation)")
    /\ sessions' = [sessions EXCEPT ![w] =
           IF @.calculation_id \in DOMAIN table.rows
           THEN Reply(@, 200, "", table.rows[@.calculation_id])
           ELSE InternalServerError(@, "InvalidRequestError")]
    /\ UNCHANGED <<call, server, python, scenarios, table>>

\* DELETE /{calculation_id}: calculation = crud.get_calculation(...); 404 if None
delete_calculation_get(w) ==
    /\ Open(w)
    /\ \E calculation_id \in CalculationIds :
         sessions' = [sessions EXCEPT ![w] =
            LET request == [Request("delete_calculation", "crud.delete_calculation",
                                    calculation_id, "")
                               EXCEPT !.found = get_calculation(calculation_id),
                                      !.calculation = get_calculation(calculation_id)]
            IN  IF get_calculation(calculation_id) = NoRow
                THEN Reply(request, 404, "Calculation not found", NoRow)
                ELSE request]
    /\ UNCHANGED <<call, server, python, scenarios, table>>

\* crud.delete_calculation: db_calculation = get_calculation(db, calculation_id);
\* False if there is none, and the endpoint raises HTTPException(400)
delete_calculation_get_again(w) ==
    /\ In(w, "delete_calculation", "crud.delete_calculation")
    /\ sessions' = [sessions EXCEPT ![w] =
           IF get_calculation(@.calculation_id) = NoRow
           THEN Reply(@, 400, "Error deleting calculation", NoRow)
           ELSE [@ EXCEPT !.at = "db.commit()"]]
    /\ UNCHANGED <<call, server, python, scenarios, table>>

\* db.delete(db_calculation); db.commit(): a DELETE of the row of the id;
\* return True, and the endpoint returns the object it got first
delete_calculation_commit(w) ==
    /\ In(w, "delete_calculation", "db.commit()")
    /\ LET id == sessions[w].calculation_id
       IN  IF id \in DOMAIN table.rows
           THEN /\ table' = [table EXCEPT !.rows = RowsWithout(@, id),
                                          !.deleted = @ \cup {id}]
                /\ sessions' = [sessions EXCEPT ![w] =
                       [Reply(@, 200, "", @.calculation) EXCEPT !.removed = table.rows[id]]]
           ELSE /\ sessions' = [sessions EXCEPT ![w] = InternalServerError(@, "StaleDataError")]
                /\ UNCHANGED table
    /\ UNCHANGED <<call, server, python, scenarios>>

CalculationNext ==
    \E w \in Workers :
        \/ create_calculation_commit(w)
        \/ create_calculation_refresh(w)
        \/ read_calculation(w)
        \/ update_calculation_result_get(w)
        \/ update_calculation_result_commit(w)
        \/ update_calculation_result_refresh(w)
        \/ delete_calculation_get(w)
        \/ delete_calculation_get_again(w)
        \/ delete_calculation_commit(w)

CalculationSpec == Init /\ [][CalculationNext]_vars

(***************************************************************************)
(* Properties of the server, checked under Spec.                           *)
(***************************************************************************)
GeometryStages ==
    <<"create_metric_tensor", "calculate_inverse_metric", "calculate_christoffel_symbols",
      "calculate_riemann_tensor", "calculate_ricci_tensor", "calculate_ricci_scalar",
      "calculate_einstein_tensor">>
StressEnergyBuilders ==
    {"create_stress_energy_tensor_from_components", "create_vacuum_tensor",
     "create_dust_tensor", "create_perfect_fluid_tensor"}

Answered(endpoint) == pc = "done" /\ req.endpoint = endpoint
Returned == {stages[i] : i \in DOMAIN stages}
\* the answers that report a rejected input
ValidationFailure == resp.status \in {400, 422}

\* a 4x4 grid over 4 coordinates whose entries parse and whose determinant is not zero
NonSingular(metric_input) ==
    /\ valid_MetricInput(metric_input)
    /\ parse_components(metric_input.components).ok
    /\ det(MetricOf(metric_input.components)).v # PZero
ChristoffelReportsNoError(metric_input) ==
    LET g == MetricOf(metric_input.components)
    IN  calculate_christoffel_symbols(g, calculate_inverse_metric(g).val,
                                      parse_coords(metric_input.coords)).val.e[2] = NoneV

\* C1: a geometry request on a 4x4 metric over 4 coordinates with non-zero
\* determinant, whose Christoffel step reports no error, runs the seven stages
\* in order (metric, inverse, Christoffel, Riemann, Ricci tensor, Ricci scalar,
\* Einstein), each on the value of the one before, and is answered with a
\* response that holds all seven quantities, not with an error.
C1_GeometryPipelineCompletes ==
    (Answered("/calculate/geometry") /\ NonSingular(req.body)
        /\ ChristoffelReportsNoError(req.body))
    => /\ stages = GeometryStages
       /\ resp.status = 200
       /\ resp.body.kind = "GeometryCalculationsResponse"
       /\ {"metric", "inverse_metric", "christoffel", "riemann", "ricci_tensor",
           "ricci_scalar", "einstein_tensor"} \subseteq DOMAIN resp.body

MalformedGrid(components) == components.some /\ ~check_components_shape(components.v)
MalformedStressEnergy(s) ==
    \/ Len(s.coords) # 4
    \/ s.definition_method = "components" /\ MalformedGrid(s.components)
MalformedMetric(m) == Len(m.coords) # 4 \/ ~check_components_shape(m.components)

\* C2: every request that defines a tensor by a grid that is not 4x4, or over
\* a coordinate list that is not of length 4, is answered with a validation
\* failure, and no tensor has been built from that definition by then.
C2_MalformedShapeRejectedFirst ==
    /\ (Answered("/calculate/geometry") /\ MalformedMetric(req.body))
       => ValidationFailure /\ stages = <<>>
    /\ (Answered("/calculate/stress-energy") /\ MalformedStressEnergy(req.body))
       => ValidationFailure /\ stages = <<>>
    /\ (Answered("/verify/efe") /\ MalformedMetric(req.body.metric_input))
       => ValidationFailure /\ stages = <<>>
    /\ (Answered("/verify/efe") /\ MalformedStressEnergy(req.body.stress_energy_input))
       => ValidationFailure /\ Returned \cap StressEnergyBuilders = {}

\* a verification request with nothing wrong in it: an invertible 4x4 metric,
\* the same four coordinates on both sides, and a stress-energy definition
\* that names what its method needs
WellFormedVerification(request) ==
    LET s == request.stress_energy_input
    IN  /\ NonSingular(request.metric_input)
        /\ s.coords = request.metric_input.coords
        /\ \/ s.definition_method = "components" /\ s.components = Some(FluidGrid)
           \/ s.definition_method = "preset"
              /\ s.preset_name \in {Some("vacuum"), Some("dust")}
        /\ sympify(request.coupling_constant_str).ok

SchwarzschildVacuum(request) ==
    /\ request.metric_input = [components |-> Schwarzschild, coords |-> DEFAULT_COORDS]
    /\ request.stress_energy_input.definition_method = "preset"
    /\ request.stress_energy_input.preset_name = Some("vacuum")
    /\ request.stress_energy_input.coords = DEFAULT_COORDS

\* C11: a verification request on the Schwarzschild metric with the vacuum
\* stress-energy variant is answered, for any coupling constant, with a
\* response that says verified = true, not with an error.
C11_SchwarzschildVacuumVerified ==
    (Answered("/verify/efe") /\ SchwarzschildVacuum(req.body))
    => /\ resp.status = 200
       /\ resp.body.kind = "EFEVerificationResponse"
       /\ resp.body.verified

CoordinateMismatch(request) ==
    /\ valid_EFEVerificationRequest(request)
    /\ request.metric_input.coords # request.stress_energy_input.coords

\* C12: a verification request whose two inputs list different coordinate
\* names is answered with a validation error that reports the mismatch, and
\* never with a verdict.
C12_CoordinateMismatchReported ==
    (Answered("/verify/efe") /\ CoordinateMismatch(req.body))
    => /\ resp.status = 400
       /\ resp.detail = "Metric and Stress-Energy tensor must use the same coordinate names for verification."
       /\ resp.body.kind # "EFEVerificationResponse"

\* the part of C12 the handler keeps: no verdict for mismatched coordinates
C12_NoVerdictOnMismatch ==
    (Answered("/verify/efe") /\ CoordinateMismatch(req.body))
    => resp.status # 200 /\ resp.body.kind # "EFEVerificationResponse"

C12_Witness ==
    /\ Answered("/verify/efe")
    /\ CoordinateMismatch(req.body)
    /\ NonSingular(req.body.metric_input)
    /\ Len(req.body.stress_energy_input.coords) = 4
    /\ resp.status = 400

\* a stress-energy definition that passes the model's validator and whose
\* variant is missing or unknown
UnknownVariant(s) ==
    /\ valid_StressEnergyInput(s)
    /\ \/ s.definition_method = "components" /\ Falsy(s.components)
       \/ s.definition_method = "preset" /\ FalsyStr(s.preset_name)
       \/ /\ s.definition_method = "preset"
          /\ ~FalsyStr(s.preset_name)
          /\ lower(s.preset_name.v) \notin {"vacuum", "dust", "perfect_fluid"}
MetricMissing(s) ==
    /\ s.definition_method = "preset"
    /\ ~FalsyStr(s.preset_name)
    /\ lower(s.preset_name.v) = "perfect_fluid"
    /\ Falsy(s.metric_components)
\* the messages of the handlers for a missing or unknown variant
VariantDetails ==
    {"Components must be provided for method 'components'.",
     "Preset name must be provided for method 'preset'.",
     "Metric components are required for perfect fluid preset.",
     "Unknown preset name",
     "Components must be provided for T_munu if method is 'components'.",
     "Unknown preset name for T_munu"}
NoTensorT == Returned \cap StressEnergyBuilders = {}

\* the stress-energy endpoint's half of C13: 400, no tensor T, and the detail
\* names the variant unless a parameter text failed to parse first
C13_StressEnergyEndpointRejects ==
    (Answered("/calculate/stress-energy")
        /\ (UnknownVariant(req.body) \/ MetricMissing(req.body)))
    => /\ resp.status = 400
       /\ NoTensorT
       /\ sympify_params(req.body.params).ok => resp.detail \in VariantDetails

\* C13: a stress-energy definition whose variant is missing or unknown is
\* answered with 400 and a detail that names what is wrong with it, by the
\* stress-energy endpoint and by the EFE verifier, and no tensor T is built.
C13_UnknownVariantRejected ==
    /\ C13_StressEnergyEndpointRejects
    /\ (Answered("/verify/efe") /\ NonSingular(req.body.metric_input)
            /\ req.body.stress_energy_input.coords = req.body.metric_input.coords
            /\ UnknownVariant(req.body.stress_energy_input))
       => /\ resp.status = 400
          /\ NoTensorT
          /\ resp.detail \in VariantDetails

C13_Witness ==
    /\ Answered("/calculate/stress-energy")
    /\ MetricMissing(req.body)
    /\ resp.status = 400
    /\ resp.detail = "Metric components are required for perfect fluid preset."

(***************************************************************************)
(* C15: a valid geodesic request is answered with tau_values and, for each *)
(* coordinate, a position and a velocity array, all of the length of       *)
(* tau_values.  The request is one for flat spacetime, where the           *)
(* integration has nothing to fail on.                                     *)
(***************************************************************************)
FlatGeodesicRequest(input_data) ==
    /\ input_data.metric_components = Minkowski
    /\ Len(input_data.coords) = 4
    /\ Len(input_data.initial_position) = 4
    /\ Len(input_data.initial_velocity) = 4
    /\ input_data.num_points >= 1

C15_TrajectoryArraysAligned ==
    (Answered("/calculate/geodesic") /\ FlatGeodesicRequest(req.body))
    => /\ resp.status = 200
       /\ resp.body.kind = "GeodesicOutput"
       /\ Len(resp.body.tau_values) = req.body.num_points
       /\ DOMAIN resp.body.position_coords = {req.body.coords[i] : i \in 1 .. 4}
       /\ DOMAIN resp.body.velocity_coords = {req.body.coords[i] : i \in 1 .. 4}
       /\ \A c \in DOMAIN resp.body.position_coords :
            /\ Len(resp.body.position_coords[c]) = Len(resp.body.tau_values)
            /\ Len(resp.body.velocity_coords[c]) = Len(resp.body.tau_values)

\* what the endpoint answers instead: calculate_geodesic refuses the tuple that
\* calculate_christoffel_symbols returned, and no trajectory is computed
C15_GeodesicEndpointRefusesConnection ==
    (Answered("/calculate/geodesic") /\ FlatGeodesicRequest(req.body))
    => /\ resp.status = 400
       /\ resp.detail = "Christoffel symbols must be a 3-rank SymPy Array with shape (4, 4, 4)."
       /\ stages = <<"create_metric_tensor", "calculate_inverse_metric",
                     "calculate_christoffel_symbols">>

C15_Witness ==
    /\ Answered("/calculate/geodesic")
    /\ FlatGeodesicRequest(req.body)
    /\ req.body.num_points = MaxPoints
    /\ req.body.initial_velocity = Floats(<<1, 1, 0, 2>>)
    /\ resp.status = 400
    /\ Len(stages) = 3

(***************************************************************************)
(* C19: when the limit of the antiderivative at infinity is not finite or  *)
(* cannot be determined, the integration constant is zero, z(r) is still   *)
(* returned as a success, and the message of the answer says that the      *)
(* constant was defaulted.                                                 *)
(***************************************************************************)
EmbeddingFound ==
    /\ Answered("/calculate/embedding/flamm")
    /\ resp.status = 200
    /\ resp.body.z_function_latex.some
z_function == resp.body.z_function_latex.v.latex
LimitNotFinite ==
    /\ EmbeddingFound
    /\ \/ z_function.kind = "linear" /\ z_function.c # <<Float(0), Float(0)>>
       \/ z_function.kind = "antiderivative" /\ req.sympy \in {"limit_infinite", "limit_raises"}
\* the pieces the handler builds its message from: none of them is about the
\* integration constant, and none is about complex values
MessagePieces ==
    {"Failed: {error}",
     "Flamm's paraboloid embedding function z(r) calculated successfully.",
     " (Warning: Cannot evaluate numerically due to symbols: {free_syms})",
     " (Numerical evaluation skipped: r_min >= r_max)",
     " Numerical data generated for r in [{r_min_val:.2f}, {r_max_val:.2f}].",
     " (Numerical evaluation failed: {num_err})"}
SaysMore(message) == \E i \in 1 .. Len(message) : message[i].text \notin MessagePieces
ZeroConstantSuccess ==
    /\ z_function.constant = "0"
    /\ resp.body.message[1].text
          = "Flamm's paraboloid embedding function z(r) calculated successfully."

C19_DefaultedConstantIsFlagged ==
    LimitNotFinite => ZeroConstantSuccess /\ SaysMore(resp.body.message)

\* what holds: the constant is zero and the answer is a success, and the message
\* is the one of an answer whose constant was fixed by a finite limit
C19_DefaultedConstantIsSilent ==
    LimitNotFinite => ZeroConstantSuccess /\ ~SaysMore(resp.body.message)

\* g_rr = M with M = 2: z(r) = r, sampled
C19_Witness ==
    /\ LimitNotFinite
    /\ z_function.c = <<Float(1), Float(0)>>
    /\ resp.body.z_values.some
    /\ Len(resp.body.message) = 2

(***************************************************************************)
(* C20: when the samples of z(r) are complex, the answer carries their     *)
(* real parts in z_values and in z_surface, and its message says that      *)
(* complex values were truncated to their real part.                       *)
(***************************************************************************)
ComplexSamples ==
    /\ EmbeddingFound
    /\ iscomplexobj(z_function)
    /\ resp.body.z_values.some
RealPartsReturned ==
    LET r_values == resp.body.r_values.v
    IN  /\ resp.body.z_values.v
             = [j \in 1 .. Len(r_values) |-> z_lambdified(z_function, r_values[j])[1]]
        /\ resp.body.z_surface.some
        /\ \A i \in 1 .. Len(resp.body.z_surface.v) :
             resp.body.z_surface.v[i] = resp.body.z_values.v

C20_ComplexTruncationIsFlagged ==
    ComplexSamples => RealPartsReturned /\ SaysMore(resp.body.message)

\* what holds: the real parts are returned, under the message of real samples
C20_RealPartsReturnedSilently ==
    ComplexSamples
    => /\ RealPartsReturned
       /\ Len(resp.body.message) = 2
       /\ resp.body.message[2].text
             = " Numerical data generated for r in [{r_min_val:.2f}, {r_max_val:.2f}]."

\* g_rr = M with M = -3: z(r) = 2*I*r, whose real part is 0
C20_Witness ==
    /\ ComplexSamples
    /\ z_function.c = <<Float(0), Float(2)>>
    /\ resp.body.r_values.v = <<Float(1), Float(3)>>
    /\ resp.body.z_values.v = <<Float(0), Float(0)>>
    /\ Len(resp.body.z_surface.v) = 3

(***************************************************************************)
(* Properties of the core functions, checked under CoreSpec.               *)
(***************************************************************************)
InverseOfSingular ==
    /\ call.fn = "calculate_inverse_metric"
    /\ IsMatrix44(call.args[1])
    /\ simplify(det(call.args[1])).v = PZero

\* C3: calculate_inverse_metric on a 4x4 metric whose determinant simplifies
\* to zero returns no inverse and raises an error of another class than the
\* one it raises for an input that is not a 4x4 matrix.
C3_SingularityErrorIsDistinct ==
    InverseOfSingular
    => /\ ~call.ret.ok
       /\ call.ret.exc # calculate_inverse_metric(Matrix3x3).exc

ChristoffelReturned == call.fn = "calculate_christoffel_symbols" /\ call.ret.ok
Gamma(lam, mu, nu) == At3(call.ret.val.e[1], lam, mu, nu)
SymmetricGrid(g) == \A i \in Idx, j \in Idx : At2(g, i, j).v = At2(g, j, i).v

RiemannAccepts ==
    /\ call.fn = "calculate_riemann_tensor"
    /\ IsArray444(call.args[1])
    /\ Len(call.args[2]) = 4

\* C5: a call of calculate_riemann_tensor on an input it accepts returns a
\* tensor with R[a,b,c,d] = -R[a,b,d,c] for all indices, hence R[a,b,c,c] = 0.
C5_RiemannAntisymmetry ==
    RiemannAccepts
    => /\ call.ret.ok
       /\ \A a \in Idx, b \in Idx, c \in Idx, d \in Idx :
             At4(call.ret.val, a, b, c, d).v = PNeg(At4(call.ret.val, a, b, d, c).v)
       /\ \A a \in Idx, b \in Idx, c \in Idx : At4(call.ret.val, a, b, c, c).v = PZero

\* 1/2 sum_k ginv[lam,k] (d_mu g[k,nu] + d_nu g[k,mu] - d_k g[mu,nu]), every
\* derivative and every product taken in full
ExactChristoffel(g, ginv, coords, lam, mu, nu) ==
    LET bracket(k) == PAdd(PAdd(PDiff(At2(g, k, nu).v, coords[mu + 1]),
                                PDiff(At2(g, k, mu).v, coords[nu + 1])),
                           PNeg(PDiff(At2(g, mu, nu).v, coords[k + 1])))
        contribution(k) == PMul(At2(ginv, lam, k).v, bracket(k))
    IN  PScale(<<1, 2>>, PSum(contribution, Idx, PZero))

Monomial(factors) ==
    [s \in Atoms |-> IF s \in DOMAIN factors THEN factors[s] ELSE 0]
ExactRiemann(christoffel, coords, a, b, c, d) ==
    LET G(i, j, k) == At3(christoffel, i, j, k).v
        plus(k) == PMul(G(a, c, k), G(k, d, b))
        minus(k) == PMul(G(a, d, k), G(k, c, b))
    IN  PAdd(PAdd(PDiff(G(a, d, b), coords[c + 1]), PNeg(PDiff(G(a, c, b), coords[d + 1]))),
             PAdd(PSum(plus, Idx, PZero), PNeg(PSum(minus, Idx, PZero))))

\* C7: for every rank-3 array of shape (4,4,4) and every list of 4 coordinates
\* calculate_riemann_tensor returns, without raising, a rank-4 array of shape
\* (4,4,4,4) whose entry [a,b,c,d] is d_c Gamma[a,d,b] - d_d Gamma[a,c,b]
\* + sum_k Gamma[a,c,k] Gamma[k,d,b] - sum_k Gamma[a,d,k] Gamma[k,c,b].
C7_RiemannFormula ==
    RiemannAccepts
    => /\ call.ret.ok
       /\ call.ret.val.shape = <<4, 4, 4, 4>>
       /\ \A a \in Idx, b \in Idx, c \in Idx, d \in Idx :
             At4(call.ret.val, a, b, c, d).v
                 = ExactRiemann(call.args[1], call.args[2], a, b, c, d)

EinsteinOfValid ==
    /\ call.fn = "calculate_einstein_tensor"
    /\ IsMatrix44(call.args[1])
    /\ call.args[2].type = "Expr"
    /\ IsMatrix44(call.args[3])

\* C8: for a 4x4 Ricci tensor Ric, a Ricci scalar R and a 4x4 metric g,
\* calculate_einstein_tensor returns G with G[mu,nu] = Ric[mu,nu] - 1/2 g[mu,nu] R
\* at all 16 index pairs.
C8_EinsteinFormula ==
    EinsteinOfValid
    => /\ call.ret.ok
       /\ IsMatrix44(call.ret.val)
       /\ \A mu \in Idx, nu \in Idx :
             At2(call.ret.val, mu, nu).v
                 = PAdd(At2(call.args[1], mu, nu).v,
                        PNeg(PScale(<<1, 2>>, PMul(At2(call.args[3], mu, nu).v,
                                                   call.args[2].e.v))))

C8_Witness ==
    /\ EinsteinOfValid
    /\ call.ret.ok
    /\ call.args[2].e.v # PZero
    /\ \E mu \in Idx, nu \in Idx :
          /\ At2(call.ret.val, mu, nu).v # PZero
          /\ At2(call.ret.val, mu, nu).v # At2(call.args[1], mu, nu).v

\* what a builder uses for a parameter: the argument, or the default of the
\* definition (the symbols rho and p, and u = (-1, 0, 0, 0))
DensityUsed(argument) == IF argument.some THEN argument.v.v ELSE PTerm(<<1, 1>>, MonPow("rho", 1))
PressureUsed(argument) == IF argument.some THEN argument.v.v ELSE PTerm(<<1, 1>>, MonPow("p", 1))
VelocityUsed(argument) ==
    IF argument.some THEN [i \in DOMAIN argument.v |-> argument.v[i].v]
    ELSE <<PConst(-1), PZero, PZero, PZero>>

BuilderFormulas ==
    /\ call.fn = "create_vacuum_tensor"
       => \A mu \in Idx, nu \in Idx : At2(call.ret.val, mu, nu).v = PZero
    /\ call.fn = "create_dust_tensor"
       => \A mu \in Idx, nu \in Idx :
             At2(call.ret.val, mu, nu).v
                 = PMul(PMul(DensityUsed(call.args[1]),
                             VelocityUsed(call.args[2])[mu + 1]),
                        VelocityUsed(call.args[2])[nu + 1])
    /\ call.fn = "create_perfect_fluid_tensor"
       => \A mu \in Idx, nu \in Idx :
             At2(call.ret.val, mu, nu).v
                 = PAdd(PMul(PMul(PAdd(DensityUsed(call.args[2]),
                                       PressureUsed(call.args[3])),
                                  VelocityUsed(call.args[4])[mu + 1]),
                             VelocityUsed(call.args[4])[nu + 1]),
                        PMul(PressureUsed(call.args[3]), At2(call.args[1], mu, nu).v))
\* a builder called on arguments its own checks accept
BuilderAccepts ==
    \/ call.fn = "create_vacuum_tensor"
    \/ call.fn = "create_dust_tensor" /\ Len(VelocityUsed(call.args[2])) = 4
    \/ /\ call.fn = "create_perfect_fluid_tensor"
       /\ IsMatrix44(call.args[1])
       /\ Len(VelocityUsed(call.args[4])) = 4

\* C9: each stress-energy builder returns its defining formula at all 16 index
\* pairs: vacuum T = 0; dust T[mu,nu] = rho u[mu] u[nu]; perfect fluid
\* T[mu,nu] = (rho + p) u[mu] u[nu] + p g[mu,nu]; with u = (-1, 0, 0, 0) and
\* the symbols rho and p where the argument is not passed.
C9_StressEnergyFormulas == BuilderAccepts => call.ret.ok /\ BuilderFormulas

\* the formulas of C9 where the module has loaded: every result a builder
\* returns is the defining formula of its variant
C9_FormulasOfReturnedTensors == (BuilderAccepts /\ call.ret.ok) => BuilderFormulas

C9_Witness ==
    /\ call.fn = "create_perfect_fluid_tensor"
    /\ call.args = <<MetricOf(Schwarzschild), None, None, None>>
    /\ call.ret.ok
    /\ At2(call.ret.val, 0, 0).v
          = PAdd(PAdd(DensityUsed(None), PressureUsed(None)),
                 PTerm(<<-1, 1>>, Monomial(("p" :> 1) @@ ("1-2*M/r" :> 1))))
    /\ At2(call.ret.val, 1, 1).v = PTerm(<<1, 1>>, Monomial(("p" :> 1) @@ ("1-2*M/r" :> -1)))
    /\ At2(call.ret.val, 0, 1).v = PZero

(***************************************************************************)
(* C14: when every Christoffel symbol is zero (Minkowski), the right-hand  *)
(* side of the geodesic equation is (u, 0) at every state of the           *)
(* trajectory, whatever the initial position and velocity: the velocity    *)
(* keeps its initial value and each position changes at the constant rate  *)
(* of its velocity component.                                              *)
(***************************************************************************)
ZeroConnection(christoffel) ==
    /\ christoffel.type = "Array"
    /\ \A lam \in Idx, mu \in Idx, nu \in Idx : is_S_Zero(At3(christoffel, lam, mu, nu))
GeodesicCall == call.fn = "calculate_geodesic"
\* the closure calculate_geodesic hands to the solver
OdeOf(christoffel, coords) ==
    geodesic_ode_system(
        Nest3(LAMBDA lam, mu, nu : lambdify(coords, At3(christoffel, lam, mu, nu))), coords).val
GeodesicArgumentsFit ==
    /\ Len(call.args[2]) = 4
    /\ Len(call.args[3]) = 4
    /\ Len(call.args[4]) = 4

C14_FlatGeodesicIsStraight ==
    (GeodesicCall /\ ZeroConnection(call.args[1]) /\ GeodesicArgumentsFit)
    => /\ Head(call.args[7]) = "accepts" => call.ret.ok
       /\ call.ret.ok =>
            LET tau == call.ret.val.e[1]
                rows == call.ret.val.e[2]
                x0 == call.args[3]
                u == call.args[4]
            IN  /\ Len(rows) = Len(tau)
                /\ \A k \in 1 .. Len(tau) :
                     /\ ode_func(OdeOf(call.args[1], call.args[2]), tau[k], rows[k])
                            = Return(u \o Floats(<<0, 0, 0, 0>>))
                     /\ \A i \in 1 .. 4 :
                          /\ rows[k][4 + i] = u[i]
                          /\ rows[k][i] = FloatAdd(x0[i], FloatMul(FloatSub(tau[k], tau[1]), u[i]))

C14_Witness ==
    /\ GeodesicCall
    /\ ZeroConnection(call.args[1])
    /\ call.ret.ok
    /\ Len(call.ret.val.e[1]) = MaxPoints
    /\ call.args[3] = Floats(<<1, 2, 0, 0>>)
    /\ call.args[4] = Floats(<<1, 1, 0, 2>>)
    /\ call.ret.val.e[2][MaxPoints] = Floats(<<3, 4, 0, 4, 1, 1, 0, 2>>)

(***************************************************************************)
(* C16: when the evaluation of a Christoffel symbol fails at the current   *)
(* point (the generated function raises, or the point is outside the       *)
(* domain of the symbol and its value is not a finite number),             *)
(* calculate_geodesic ends with a RuntimeError that names the point, and   *)
(* it returns no trajectory.  Stated for the initial point.                *)
(***************************************************************************)
Evaluated(christoffel, coords, point, lam, mu, nu) ==
    lambdified_call(lambdify(coords, At3(christoffel, lam, mu, nu)), point)
EvaluationRaises(christoffel, coords, point) ==
    \E lam \in Idx, mu \in Idx, nu \in Idx : ~Evaluated(christoffel, coords, point, lam, mu, nu).ok
EvaluationNotFinite(christoffel, coords, point) ==
    /\ ~EvaluationRaises(christoffel, coords, point)
    /\ \E lam \in Idx, mu \in Idx, nu \in Idx :
          ~isfinite(Evaluated(christoffel, coords, point, lam, mu, nu).val)
GeodesicStarts == GeodesicCall /\ call.args[1].type = "Array" /\ GeodesicArgumentsFit
NamesThePoint(ret, point) ==
    /\ ret.exc = "RuntimeError"
    /\ ret.msg.text = "Error during geodesic calculation: {e}"
    /\ ret.msg.e.text = "Error evaluating Christoffel symbol at {coords}={current_coords}"
    /\ ret.msg.e.current_coords = point

C16_FailedEvaluationNamesThePoint ==
    (/\ GeodesicStarts
     /\ \/ EvaluationRaises(call.args[1], call.args[2], call.args[3])
        \/ EvaluationNotFinite(call.args[1], call.args[2], call.args[3]))
    => NamesThePoint(call.ret, call.args[3])

\* what holds: an evaluation that raises is reported with its point, and a
\* trajectory that is returned has finite Christoffel symbols along its steps
C16_RaisedEvaluationNamesThePoint ==
    GeodesicStarts
    => /\ EvaluationRaises(call.args[1], call.args[2], call.args[3])
            => NamesThePoint(call.ret, call.args[3])
       /\ call.ret.ok
            => \A k \in 1 .. Len(call.ret.val.e[2]) :
                  LET point == SubSeq(call.ret.val.e[2][k], 1, 4)
                  IN  /\ ~EvaluationRaises(call.args[1], call.args[2], point)
                      /\ ~EvaluationNotFinite(call.args[1], call.args[2], point)

C16_Witness ==
    /\ GeodesicStarts
    /\ EvaluationRaises(call.args[1], call.args[2], call.args[3])
    /\ call.args[3] = Floats(<<1, 2, 0, 0>>)
    /\ NamesThePoint(call.ret, Floats(<<1, 2, 0, 0>>))

(***************************************************************************)
(* C17: calculate_geodesic invokes the solver once.  When that invocation  *)
(* reports non-success, the call ends with a RuntimeError whose message    *)
(* carries the solver's diagnostic: the solver is not invoked again, and   *)
(* no trajectory, partial or whole, is returned.                           *)
(***************************************************************************)
FirstInvocation ==
    solve_ivp(OdeOf(call.args[1], call.args[2]), call.args[5],
              call.args[3] \o call.args[4], call.args[6], Head(call.args[7]))
SolverReportsFailure ==
    /\ GeodesicStarts
    /\ FirstInvocation.ok
    /\ ~FirstInvocation.val.success

C17_SolverFailureIsFinal ==
    SolverReportsFailure
    => /\ ~call.ret.ok
       /\ call.ret.exc = "RuntimeError"
       /\ call.ret.msg.text = "Error during geodesic calculation: {e}"
       /\ call.ret.msg.e.text = "solve_ivp failed: {sol.message}"
       /\ call.ret.msg.e.message = FirstInvocation.val.message
       /\ call.ret.val = NoneV

\* the first invocation gives up where a second one would have succeeded
C17_Witness ==
    /\ SolverReportsFailure
    /\ call.args[7] = <<"gives_up", "accepts">>
    /\ ZeroConnection(call.args[1])
    /\ call.ret.exc = "RuntimeError"
    /\ call.ret.msg.e.message = TOO_SMALL_STEP

(***************************************************************************)
(* C18: calculate_flamms_paraboloid never raises.  Given a 4x4 metric and  *)
(* four coordinates with r and theta among them, it returns (None,         *)
(* message) for an unsuitable metric exactly when g_rr contains a          *)
(* coordinate symbol other than r; when g_rr contains only r and symbols   *)
(* that are not coordinates, the integration is attempted: the result is   *)
(* z(r), or the message of a failed integration.                           *)
(***************************************************************************)
FlammCall == call.fn = "calculate_flamms_paraboloid"
FlammArgumentsFit ==
    /\ FlammCall
    /\ IsMatrix44(call.args[1])
    /\ Len(call.args[2]) = 4
    /\ {"r", "theta"} \subseteq {call.args[2][i] : i \in 1 .. 4}
RadialComponent ==
    LET i == CHOOSE k \in 1 .. 4 : call.args[2][k] = "r"
    IN  call.args[1].e[i][i]
OtherCoordinatesOf(e, coords) == (free_symbols(e) \cap {coords[i] : i \in 1 .. 4}) \ {"r"}
Unsuitable(ret) ==
    /\ ret.val.e[1].type = "NoneType"
    /\ ret.val.e[2].type = "str"
    /\ ret.val.e[2].e.text = "Metric component g_rr depends on coordinates other than r: {other_coord_deps}. Cannot compute Flamm's paraboloid simply."
IntegrationAttempted(ret) ==
    \/ ret.val.e[1].type = "Expr" /\ ret.val.e[2].type = "NoneType"
    \/ /\ ret.val.e[1].type = "NoneType"
       /\ ret.val.e[2].type = "str"
       /\ ret.val.e[2].e.text \in
             {"Could not calculate embedding function z(r): {e}",
              "Symbolic integration failed for sqrt(g_rr - 1) = {integrand_simplified}. Cannot determine z(r)."}

FormatCall == call.fn = "format_tensor_output"
HasShape(tensor) == tensor.type \in {"Matrix", "Array", "MutableArray"}
ComponentAt(tensor, i) ==
    IF Len(i) = 2 THEN At2(tensor, i[1], i[2])
    ELSE IF Len(i) = 3 THEN At3(tensor, i[1], i[2], i[3])
    ELSE At4(tensor, i[1], i[2], i[3], i[4])
IndicesOf(tensor) ==
    IF Len(tensor.shape) = 2 THEN Idx \X Idx
    ELSE IF Len(tensor.shape) = 3 THEN Idx \X Idx \X Idx
    ELSE Idx \X Idx \X Idx \X Idx

C21_AbsentKeyMeansZero ==
    (FormatCall /\ HasShape(call.args[1]))
    => /\ call.ret.ok
       /\ LET keys == DOMAIN call.ret.val.e
              tensor == call.args[1]
          IN  IF Len(tensor.shape) = 2
              THEN keys = Idx \X Idx
              ELSE \A i \in IndicesOf(tensor) :
                      i \in keys <=> simplify(ComponentAt(tensor, i)).v # PZero

\* what holds: the first component is handed to simplify, a name endpoints.py
\* never binds, and the call ends there; a nested list has no shape at all
C21_FormatTensorOutputRaises ==
    FormatCall
    => /\ ~call.ret.ok
       /\ call.ret.exc = IF HasShape(call.args[1]) THEN "NameError" ELSE "AttributeError"

C21_Witness ==
    /\ FormatCall
    /\ call.args[1].type = "Array"
    /\ Len(call.args[1].shape) = 3
    /\ \E i \in IndicesOf(call.args[1]) : ComponentAt(call.args[1], i).v # PZero
    /\ \E i \in IndicesOf(call.args[1]) : ComponentAt(call.args[1], i).v = PZero
    /\ call.ret.exc = "NameError"

(***************************************************************************)
(* C22: when the simplification of one component (mu, nu) of the Einstein  *)
(* tensor fails, calculate_einstein_tensor reports a failure that carries  *)
(* that index, and the other components are still computed.                *)
(***************************************************************************)
EinsteinSimplifyFails ==
    /\ call.fn = "calculate_einstein_tensor_with"
    /\ IsMatrix44(call.args[2])
    /\ call.args[3].type = "Expr"
    /\ IsMatrix44(call.args[4])
    /\ call.args[1] # {}
\* the fields of a message that names the component the loop was at
CarriesComponent(msg, components) ==
    /\ {"i", "j"} \subseteq DOMAIN msg
    /\ <<msg.i, msg.j>> \in components
EinsteinComponent(ricci_tensor, ricci_scalar, metric, mu, nu) ==
    PAdd(At2(ricci_tensor, mu, nu).v,
         PNeg(PScale(<<1, 2>>, PMul(At2(metric, mu, nu).v, ricci_scalar.e.v))))

C22_ComponentFailureIsLocal ==
    EinsteinSimplifyFails
    => /\ CarriesComponent(call.ret.msg, call.args[1])
       /\ call.ret.val.type = "Matrix"
       /\ \A mu \in Idx, nu \in Idx :
             <<mu, nu>> \notin call.args[1]
             => At2(call.ret.val, mu, nu).v
                    = EinsteinComponent(call.args[2], call.args[3], call.args[4], mu, nu)

\* what holds: the first failure ends the loop, the call raises one ValueError
\* whose message is the text of the exception and nothing else, and no
\* component is returned; without a failure all 16 components are returned
C22_FirstFailureAbortsTheTensor ==
    /\ EinsteinSimplifyFails
       => /\ ~call.ret.ok
          /\ call.ret.exc = "ValueError"
          /\ call.ret.msg.text = "Error calculating Einstein tensor: {str(e)}"
          /\ DOMAIN call.ret.msg = {"text", "e"}
          /\ call.ret.val.type = "NoneType"
    /\ (call.fn = "calculate_einstein_tensor_with" /\ call.args[1] = {})
       => call.ret = calculate_einstein_tensor(call.args[2], call.args[3], call.args[4])

C22_Witness ==
    /\ EinsteinSimplifyFails
    /\ call.args[1] = {<<1, 2>>}
    /\ EinsteinComponent(call.args[2], call.args[3], call.args[4], 0, 0) # PZero
    /\ ~call.ret.ok

(***************************************************************************)
(* C23: an exception raised by differentiation or simplification inside    *)
(* calculate_christoffel_symbols is caught and returned as (None, message) *)
(* with a non-empty message that carries the indices being computed when   *)
(* it was raised; on success the error is None and the result is not: on   *)
(* every return exactly one of the two is None.                            *)
(***************************************************************************)
ChristoffelWithCall ==
    /\ call.fn = "calculate_christoffel_symbols_with"
    /\ IsMatrix44(call.args[2])
    /\ IsMatrix44(call.args[3])
    /\ Len(call.args[4]) = 4
DgOf(metric, coords) ==
    ArrayOf("MutableArray", LAMBDA sigma, mu, nu :
                christoffel_dg(metric, coords, sigma, mu, nu))
\* the calls of SymPy that raise in this call
RaisedIn ==
    {point \in call.args[1] :
        christoffel_calls(point, call.args[2], call.args[3], call.args[4],
                          DgOf(call.args[2], call.args[4]))}
IsNone(x) == x.type = "NoneType"
ExactlyOneIsNone(pair) == IsNone(pair.e[1]) # IsNone(pair.e[2])
\* the fields of a message that names the indices the loops were at
CarriesIndices(msg, points) ==
    \E first \in {"rho", "lam"} :
        /\ {first, "mu", "nu"} \subseteq DOMAIN msg
        /\ <<msg[first], msg.mu, msg.nu>> \in {point.at : point \in points}

C23_FailureCarriesIndices ==
    ChristoffelWithCall
    => /\ call.ret.ok
       /\ ExactlyOneIsNone(call.ret.val)
       /\ IsNone(call.ret.val.e[2]) <=> RaisedIn = {}
       /\ RaisedIn # {} => CarriesIndices(call.ret.val.e[2].e, RaisedIn)

\* what holds: the exception is returned as (None, message), the message being
\* the text of the exception behind a fixed prefix, with no index in it
C23_FailureIsReturnedWithoutIndices ==
    ChristoffelWithCall
    => /\ call.ret.ok
       /\ ExactlyOneIsNone(call.ret.val)
       /\ IsNone(call.ret.val.e[2]) <=> RaisedIn = {}
       /\ RaisedIn # {}
          => /\ call.ret.val.e[2].type = "str"
             /\ call.ret.val.e[2].e.text = "Error calculating Christoffel symbols: {e}"
             /\ DOMAIN call.ret.val.e[2].e = {"text", "e"}

C23_Witness ==
    /\ ChristoffelWithCall
    /\ RaisedIn = {RaisesAt("simplify(sympy.Rational(1, 2) * sum_val)", <<0, 0, 1>>)}
    /\ IsNone(call.ret.val.e[1])
    /\ call.ret.val.e[2].type = "str"

(***************************************************************************)
(* C27: when the verification fails, the component named in the message is *)
(* the first non-zero entry of the simplified difference in row-major      *)
(* order, no entry before it is non-zero, and the message carries that     *)
(* entry.  Stated for flat spacetime (G = 0) against dust, whose           *)
(* difference is -kappa T with T[0, 0] = rho.                              *)
(***************************************************************************)
FlatAgainstDust(request) ==
    /\ request.metric_input = [components |-> Minkowski, coords |-> DEFAULT_COORDS]
    /\ request.stress_energy_input.definition_method = "preset"
    /\ request.stress_energy_input.preset_name = Some("dust")
    /\ request.stress_energy_input.coords = DEFAULT_COORDS
DifferenceOfFlatAgainstDust(request) ==
    MatrixV(LAMBDA i, j :
        simplify(ENeg(EMul(sympify(request.coupling_constant_str).val,
                           At2(create_dust_tensor(Sym("rho"), default_four_velocity).val,
                               i, j)))))
Precedes(a, b) == a[1] < b[1] \/ (a[1] = b[1] /\ a[2] < b[2])

C27_FirstMismatchIsReported ==
    (Answered("/verify/efe") /\ FlatAgainstDust(req.body))
    => LET d == DifferenceOfFlatAgainstDust(req.body)
       IN  /\ resp.status = 200
           /\ ~resp.body.verified
           /\ resp.body.component \in Idx \X Idx
           /\ At2(d, resp.body.component[1], resp.body.component[2]).v # PZero
           /\ \A ij \in Idx \X Idx :
                 Precedes(ij, resp.body.component) => At2(d, ij[1], ij[2]).v = PZero
           /\ resp.body.residual.v
                 = At2(d, resp.body.component[1], resp.body.component[2]).v

\* what holds: no verification request gets as far as the comparison; the
\* request that would fail it is refused after the Christoffel step
C27_NoMismatchIsEverReported ==
    Answered("/verify/efe")
    => /\ resp.status # 200
       /\ "calculate_einstein_tensor" \notin {stages[k] : k \in 1 .. Len(stages)}
       /\ FlatAgainstDust(req.body)
          => /\ resp.status = 400
             /\ stages = <<"create_metric_tensor", "calculate_inverse_metric",
                           "calculate_christoffel_symbols">>

C27_Witness ==
    /\ Answered("/verify/efe")
    /\ FlatAgainstDust(req.body)
    /\ \E ij \in Idx \X Idx : At2(DifferenceOfFlatAgainstDust(req.body), ij[1], ij[2]).v # PZero
    /\ resp.status = 400

(***************************************************************************)
(* C28: for a state y = (x, u) the right-hand side of the geodesic         *)
(* equation is dy with dy[lam] = u[lam] and dy[4 + lam] = minus the sum,   *)
(* over all 16 pairs (mu, nu), of Gamma[lam][mu][nu](x) u[mu] u[nu], the   *)
(* symbols being evaluated at the position x of the state.                 *)
(***************************************************************************)
OdeCall == call.fn = "ode_func" /\ Len(call.args[2]) = 4
PositionOf(y) == SubSeq(y, 1, 4)
VelocityOf(y) == SubSeq(y, 5, 8)
\* the contraction, row by row
Contraction(christoffel, coords, y, lam) ==
    LET row(mu) ==
            FloatSum(LAMBDA nu :
                         FloatMul(Evaluated(christoffel, coords, PositionOf(y), lam, mu, nu).val,
                                  FloatMul(VelocityOf(y)[mu + 1], VelocityOf(y)[nu + 1])),
                     Idx)
    IN  FloatSum(row, Idx)

C28_GeodesicRightHandSide ==
    OdeCall
    => /\ call.ret.ok <=> ~EvaluationRaises(call.args[1], call.args[2], PositionOf(call.args[4]))
       /\ call.ret.ok
          => /\ Len(call.ret.val) = 8
             /\ \A lam \in Idx :
                   /\ call.ret.val[lam + 1] = VelocityOf(call.args[4])[lam + 1]
                   /\ call.ret.val[4 + lam + 1]
                         = FloatSub(<<0, 1>>,
                                    Contraction(call.args[1], call.args[2], call.args[4], lam))

\* a state in which a pair (mu, nu) with mu # nu contributes: Gamma^r_tr = 1/(2t)
\* at t = 1 with u^t = u^r = 1 gives the acceleration -(1/2 + 1/2) in r
C28_Witness ==
    /\ OdeCall
    /\ call.ret.ok
    /\ call.args[4] = Floats(<<1, 2, 0, 0, 1, 1, 0, 2>>)
    /\ Evaluated(call.args[1], call.args[2], PositionOf(call.args[4]), 1, 0, 1).val = <<1, 2>>
    /\ call.ret.val[6] = <<-1, 1>>

(***************************************************************************)
(* C29: in each calculation endpoint (geometry, stress-energy, embedding,  *)
(* geodesic, EFE) a component text that cannot be parsed is answered with  *)
(* the client error that parse_components raises, status 400, and not with *)
(* a 500 made of it by the handler's except clauses.                       *)
(***************************************************************************)
\* the request passes validation and hands an unparsable grid to parse_components
HandsOverUnparsable ==
    /\ pc = "done"
    /\ CASE req.endpoint = "/calculate/geometry" ->
                valid_MetricInput(req.body) /\ req.body.components = UnparsableGrid
         [] req.endpoint = "/calculate/stress-energy" ->
                /\ req.body.definition_method = "components"
                /\ req.body.components = Some(UnparsableGrid)
         [] req.endpoint = "/verify/efe" ->
                /\ valid_EFEVerificationRequest(req.body)
                /\ req.body.metric_input.components = UnparsableGrid
         [] req.endpoint = "/calculate/geodesic" ->
                req.body.metric_components = UnparsableGrid
         [] req.endpoint = "/calculate/embedding/flamm" ->
                /\ valid_MetricInput(req.body.metric_input)
                /\ req.body.metric_input.components = UnparsableGrid
         [] OTHER -> FALSE

C29_UnparsableComponentIsClientError ==
    HandsOverUnparsable => resp.status = 400

\* what holds: in each of the five endpoints the HTTPException of
\* parse_components is caught by the handler's own "except Exception" and
\* answered as 500, before any core function has run
C29_UnparsableComponentIsAnswered500 ==
    HandsOverUnparsable => resp.status = 500 /\ stages = <<>>

C29_Witness ==
    /\ HandsOverUnparsable
    /\ req.endpoint = "/calculate/embedding/flamm"
    /\ ~parse_components(req.body.metric_input.components).ok
    /\ parse_components(req.body.metric_input.components).exc = "HTTPException400"
    /\ resp.status = 500

(***************************************************************************)
(* Properties of a Python session, checked under SessionSpec.              *)
(***************************************************************************)
InSession == history.begun
Called(fn) == InSession /\ history.last.fn = fn

Served(w, fn) == threads[w].at = "done" /\ threads[w].fn = fn
ArrivedAfterSave(w) == threads[w].scenario_name \in threads[w].saved_on_arrival
FileOf(N) == files.dir[file_path_of(N)]
HasFile(N) == file_path_of(N) \in DOMAIN files.dir

\* C25: once a scenario named N has been saved successfully, the file of N
\* keeps the content of the first successful save, and every save request of
\* the name N that arrives later or is being served at that moment is answered
\* with 409, under any interleaving of the save requests.
C25_FirstSaveIsKept ==
    /\ \A N \in DOMAIN files.saved : HasFile(N) /\ FileOf(N) = files.saved[N]
    /\ \A w \in Workers :
           Served(w, "save_scenario") /\ (ArrivedAfterSave(w) \/ threads[w].overtaken)
               => threads[w].status = 409

\* C25, what the handler does: a saved scenario keeps a file, and a save
\* request that arrives after the save is answered with 409; a request that
\* has passed its existence check before is not held back by it
C25_OnlyLaterSavesAreRefused ==
    /\ \A N \in DOMAIN files.saved : HasFile(N)
    /\ \A w \in Workers :
           /\ Served(w, "save_scenario") /\ ArrivedAfterSave(w) => threads[w].status = 409
           /\ threads[w].fn = "save_scenario" /\ threads[w].status = 409
                  => threads[w].at = "done" /\ HasFile(threads[w].scenario_name)

\* C25 witness: two requests have saved the same name with different
\* definitions, both were answered 201, and the file holds the second one
C25_Witness ==
    \E v \in Workers, w \in Workers :
        /\ Served(v, "save_scenario") /\ threads[v].status = 201
        /\ Served(w, "save_scenario") /\ threads[w].status = 201
        /\ threads[v].scenario_name = threads[w].scenario_name
        /\ threads[w].overtaken
        /\ files.saved[threads[v].scenario_name] = model_dump_json(threads[v].definition)
        /\ FileOf(threads[w].scenario_name) = model_dump_json(threads[w].definition)
        /\ threads[v].definition # threads[w].definition

LoadIsMissing(w) ==
    Served(w, "load_scenario") /\ ~HasFile(threads[w].scenario_name) => threads[w].status = 404
ListIncludesTheSaved(w) ==
    Served(w, "list_scenarios") =>
        \A N \in threads[w].saved_on_arrival :
            \E i \in 1 .. Len(threads[w].names) : threads[w].names[i] = N

\* C26: after save_scenario(N, D) has succeeded, load_scenario(N) is answered
\* 200 with scenario_name N and a definition equal to D, and list_scenarios
\* includes N; load_scenario of a name that has no file is answered 404.
C26_RoundTrip ==
    \A w \in Workers :
        /\ Served(w, "load_scenario") /\ ArrivedAfterSave(w) =>
               /\ threads[w].status = 200
               /\ model_dump_json(threads[w].loaded) = files.saved[threads[w].scenario_name]
        /\ ListIncludesTheSaved(w)
        /\ LoadIsMissing(w)

\* C26, what the handlers do: a load of a name that has a file is answered
\* 500 whatever the file holds, because ScenarioDefinition is not a name of
\* endpoints.py; the list includes the saved names; a name without a file
\* is answered 404
C26_SavedScenarioIsNotLoaded ==
    \A w \in Workers :
        /\ Served(w, "load_scenario") =>
               /\ threads[w].status \in {404, 500}
               /\ ArrivedAfterSave(w) => threads[w].status = 500
               /\ threads[w].loaded = NoDefinition
        /\ ListIncludesTheSaved(w)
        /\ LoadIsMissing(w)

\* C26 witness: a scenario was saved, its file holds what was saved, and a
\* load of it that arrived afterwards has been answered 500 for the NameError
C26_Witness ==
    \E w \in Workers :
        /\ Served(w, "load_scenario") /\ ArrivedAfterSave(w)
        /\ FileOf(threads[w].scenario_name) = files.saved[threads[w].scenario_name]
        /\ threads[w].status = 500
        /\ threads[w].detail = "Could not load scenario '{scenario_name}': {e}"
(***************************************************************************)
(* Properties of the calculations router, checked under CalculationSpec.   *)
(***************************************************************************)
Replied(w, fn) == sessions[w].at = "done" /\ sessions[w].fn = fn
Stored(id) == id \in DOMAIN table.rows
\* the request of w was for an id that had no record when the handler looked
ForAbsentId(session) ==
    /\ session.fn \in {"update_calculation_result", "delete_calculation"}
    /\ session.found = NoRow
ReadAfterDeleteIs404 ==
    \A w \in Workers :
        Replied(w, "read_calculation") /\ sessions[w].deleted_on_arrival
            => sessions[w].status = 404
AbsentIdIs404 ==
    \A w \in Workers :
        sessions[w].at # "idle" /\ ForAbsentId(sessions[w])
            => sessions[w].at = "done" /\ sessions[w].status = 404
\* a step of a request for an absent id leaves the table as it is
AbsentIdChangesNothing ==
    \A w \in Workers :
        sessions'[w] # sessions[w] /\ ForAbsentId(sessions'[w]) => table' = table

\* C30: under any interleaving of create, update-result and delete requests
\* the delete endpoint answers 404 when the id has no record, and otherwise
\* removes exactly that record and returns it, with no other error; an
\* update-result or a delete for an absent id is answered 404 (and changes no
\* record); after a successful delete a read of the id is answered 404.
C30_DeleteRemovesTheRecordOr404 ==
    /\ \A w \in Workers :
           Replied(w, "delete_calculation") =>
               /\ sessions[w].status \in {200, 404}
               /\ sessions[w].status = 404 <=> sessions[w].found = NoRow
               /\ sessions[w].status = 200 =>
                      /\ sessions[w].removed.id = sessions[w].calculation_id
                      /\ sessions[w].body.id = sessions[w].calculation_id
                      /\ ~Stored(sessions[w].calculation_id)
    /\ AbsentIdIs404
    /\ ReadAfterDeleteIs404

\* C30, what the handlers do: a delete is answered 404 exactly when the id had
\* no record at its first look; otherwise it is answered 200 with the object
\* of that first look after removing the record of the id, or 400 when the
\* record has gone before its second look, or 500 when it has gone before
\* its DELETE.  A request for an absent id is answered 404 and none of its
\* steps changes the table; a read after a successful delete is answered 404.
C30_DeleteFailsWhenOvertaken ==
    /\ [](/\ \A w \in Workers :
               Replied(w, "delete_calculation") =>
                   /\ sessions[w].status \in {200, 400, 404, 500}
                   /\ sessions[w].status = 404 <=> sessions[w].found = NoRow
                   /\ sessions[w].status = 200 =>
                          /\ sessions[w].removed.id = sessions[w].calculation_id
                          /\ sessions[w].body = sessions[w].found
                          /\ ~Stored(sessions[w].calculation_id)
                   /\ sessions[w].status \in {400, 500} =>
                          /\ sessions[w].calculation_id \in table.deleted
                          /\ sessions[w].removed = NoRow
          /\ AbsentIdIs404
          /\ ReadAfterDeleteIs404)
    /\ [][AbsentIdChangesNothing]_vars

\* C30 witness: two deletes of the same stored id were served together; one
\* removed the record and was answered 200, the other 400
C30_Witness ==
    \E v \in Workers, w \in Workers :
        /\ Replied(v, "delete_calculation") /\ sessions[v].status = 200
        /\ Replied(w, "delete_calculation") /\ sessions[w].status = 400
        /\ sessions[w].detail = "Error deleting calculation"
        /\ sessions[v].calculation_id = sessions[w].calculation_id
        /\ sessions[w].found # NoRow
        /\ sessions[v].removed = sessions[w].found
====
